---- MODULE Spec2Model ----
(***************************************************************************)
(* LinuxWhisper: the capture / intent / routing pipeline.                  *)
(*                                                                         *)
(* The repository holds two revisions of the application: the package      *)
(* src/src/linuxwhisper (one recording mode, "aria") and the single-file   *)
(* src/linuxwhisper.py (four recording modes).  The variable rev says      *)
(* which one runs; it is chosen in Init and never changes.                 *)
(*                                                                         *)
(* A Python str is kept run-length encoded: a sequence of runs             *)
(* [c |-> character, n |-> repetitions], no empty run, no two adjacent     *)
(* runs of the same character.  This keeps len() exact for texts of        *)
(* hundreds of thousands of characters, which the token budget needs.      *)
(***************************************************************************)
EXTENDS Integers, Sequences, FiniteSets, TLC

VARIABLES
    rev,                    \* "pkg" (src/src/linuxwhisper) or "mono" (src/linuxwhisper.py)
    \* AppState (state.py)
    recording, current_mode, audio_buffer, stream, viz_queue,
    overlay_window, chat_overlay_window,
    chat_messages, chat_pinned, chat_enabled, chat_hide_timer,
    conversation_history, answer_history, tts_enabled,
    \* KeyboardHandler.current_keys
    current_keys,
    \* threads: the position and the locals of the hotkey listener and of the UI loop,
    \* the GLib idle queue, the _process_worker threads still running
    pc, loc, ui_queue, workers,
    \* environment: keys physically down, events delivered, chunks delivered, the
    \* minute time.strftime("%H:%M") reads (a run of the model lasts less than one)
    held, events, frame_no, clock,
    \* observation: text handed to type_text / paste_text, text handed to the speech
    \* service, external calls in the order they were issued, sessions started and
    \* ended, every message appended / answer inserted since the last clear, and the
    \* last thing process() did
    typed, spoken, ext_calls, starts, finals, appended, inserted, last_process,
    \* argument and result of the function a pure-function specification applies;
    \* in Spec, res is how the last external call that returned ended:
    \* "ok", "empty" or "raised"
    arg, res

(***************************************************************************)
(* Bounds of the model.                                                    *)
(***************************************************************************)
\* appends to conversation_history explored by SpecHistory
MaxAppends == 5
\* length of the transcripts SpecGuard enumerates over its alphabet
MaxGuardLen == 4
\* tokens of the classifier replies SpecRouter enumerates
MaxReplyLen == 3
\* insertions into answer_history explored by SpecAnswers
MaxAnswers == 16
\* key, tray and stop events the environment delivers in one run of Spec
MaxEvents == 4
\* audio chunks the driver delivers in one capture session of Spec
MaxFrames == 1
\* audio chunks the driver delivers in one capture session of SpecAudio
MaxChunks == 7
\* samples of one audio chunk
SamplesPerChunk == 2

(***************************************************************************)
(* Program constants (config.py).                                          *)
(***************************************************************************)
MAX_TOKENS == 32000
ANSWER_HISTORY_LIMIT == 15
CHAT_MESSAGE_LIMIT == 20

\* Python's None where a str is expected: no str has a run of length 0
NoneStr == <<[c |-> "None", n |-> 0]>>

\* bool(x) of an Optional[str]
Truthy(t) == t # NoneStr /\ Len(t) > 0

(***************************************************************************)
(* Python str, run-length encoded.                                         *)
(***************************************************************************)
RECURSIVE Canon(_)
Canon(r) ==
    IF Len(r) = 0 THEN <<>>
    ELSE LET h == Head(r)
             rest == Canon(Tail(r))
         IN  IF h.n = 0 THEN rest
             ELSE IF Len(rest) > 0 /\ rest[1].c = h.c
                  THEN <<[c |-> h.c, n |-> h.n + rest[1].n]>> \o Tail(rest)
                  ELSE <<h>> \o rest

\* the str whose characters are the elements of s, in order
Str(s) == Canon([i \in 1..Len(s) |-> [c |-> s[i], n |-> 1]])

\* the str made of k copies of the character ch
Rep(ch, k) == Canon(<<[c |-> ch, n |-> k]>>)

RECURSIVE str_len(_)
str_len(t) == IF Len(t) = 0 THEN 0 ELSE Head(t).n + str_len(Tail(t))

str_concat(a, b) == Canon(a \o b)

LowerMap ==
    [A |-> "a", B |-> "b", C |-> "c", D |-> "d", E |-> "e", F |-> "f", G |-> "g",
     H |-> "h", I |-> "i", J |-> "j", K |-> "k", L |-> "l", M |-> "m", N |-> "n",
     O |-> "o", P |-> "p", Q |-> "q", R |-> "r", S |-> "s", T |-> "t", U |-> "u",
     V |-> "v", W |-> "w", X |-> "x", Y |-> "y", Z |-> "z"]

LowerChar(ch) == IF ch \in DOMAIN LowerMap THEN LowerMap[ch] ELSE ch

str_lower(t) == Canon([i \in 1..Len(t) |-> [c |-> LowerChar(t[i].c), n |-> t[i].n]])

Whitespace == {" ", "\n", "\t"}

RECURSIVE lstrip(_)
lstrip(t) == IF Len(t) > 0 /\ Head(t).c \in Whitespace THEN lstrip(Tail(t)) ELSE t

RECURSIVE rstrip(_)
rstrip(t) ==
    IF Len(t) > 0 /\ t[Len(t)].c \in Whitespace
    THEN rstrip(SubSeq(t, 1, Len(t) - 1))
    ELSE t

str_strip(t) == rstrip(lstrip(t))

\* text.replace(ch, ""): every occurrence of ch removed
str_remove(t, ch) == Canon(SelectSeq(t, LAMBDA r : r.c # ch))

(***************************************************************************)
(* HistoryManager (managers/history.py).                                   *)
(***************************************************************************)
HistoryManager_estimate_tokens(text) == str_len(text) \div 4

RECURSIVE HistoryManager_get_history_tokens(_)
HistoryManager_get_history_tokens(h) ==
    IF Len(h) = 0 THEN 0
    ELSE HistoryManager_estimate_tokens(Head(h).content)
         + HistoryManager_get_history_tokens(Tail(h))

\* a plausible slip: the newest message is evicted instead of the oldest
trim_pop_newest(h) == SubSeq(h, 1, Len(h) - 1)

\* conversation_history.pop(0)
trim_pop(h) == Tail(h)

\* a plausible slip: the loop runs once, not until the total fits
trim_history_once(h) ==
    IF HistoryManager_get_history_tokens(h) > MAX_TOKENS /\ Len(h) > 0
    THEN trim_pop(h)
    ELSE h

RECURSIVE trim_loop(_)
trim_loop(h) ==
    IF HistoryManager_get_history_tokens(h) > MAX_TOKENS /\ Len(h) > 0
    THEN trim_loop(trim_pop(h))
    ELSE h

HistoryManager_trim_history(h) == trim_loop(h)

HistoryManager_add_message(h, role, content) ==
    HistoryManager_trim_history(Append(h, [role |-> role, content |-> content]))

\* a plausible slip: the new entry is appended at the tail
add_answer_at_tail(a, text, timestamp) ==
    LET ins == Append(a, [text |-> text, timestamp |-> timestamp])
    IN  IF Len(ins) > ANSWER_HISTORY_LIMIT
        THEN SubSeq(ins, 1, ANSWER_HISTORY_LIMIT)
        ELSE ins

HistoryManager_add_answer(a, text, timestamp) ==
    LET ins == <<[text |-> text, timestamp |-> timestamp]>> \o a
    IN  IF Len(ins) > ANSWER_HISTORY_LIMIT
        THEN SubSeq(ins, 1, ANSWER_HISTORY_LIMIT)
        ELSE ins

ChatManager_add_message(msgs, role, text) ==
    LET app == Append(msgs, [role |-> role, text |-> text])
    IN  IF Len(app) > CHAT_MESSAGE_LIMIT
        THEN SubSeq(app, Len(app) - CHAT_MESSAGE_LIMIT + 1, Len(app))
        ELSE app

(***************************************************************************)
(* Hotkey tables (config.py, linuxwhisper.py) and KeyboardHandler's        *)
(* matching (handlers/keyboard.py).                                        *)
(*                                                                         *)
(* A key event carries a pynput Key (an enum member, no vk attribute) or a *)
(* KeyCode (with a vk).  The tables list Key members and bare integers.    *)
(***************************************************************************)
VK_AUDIO_RECORD == 269025098
VK_AI_ALT == 269025099
VK_PIN_ALT == 269025047

Key(name) == [cls |-> "Key", name |-> name, vk |-> 0]
KeyCode(vk) == [cls |-> "KeyCode", name |-> "", vk |-> vk]
IntEntry(n) == [cls |-> "int", name |-> "", vk |-> n]

\* CFG.MODES, in dict order
MODES(r) ==
    IF r = "pkg" THEN <<"aria">>
    ELSE <<"dictation", "ai", "ai_rewrite", "vision">>

\* CFG.HOTKEY_DEFS: mode_id -> primary key and extra keys (KEY_MAPPINGS)
HOTKEY_DEFS(r) ==
    IF r = "pkg"
    THEN [aria |-> {Key("f3"), IntEntry(VK_AUDIO_RECORD), Key("media_play_pause")},
          pin  |-> {Key("f9"), IntEntry(VK_PIN_ALT), Key("media_next")},
          tts  |-> {Key("f10"), Key("media_volume_mute")}]
    ELSE [dictation  |-> {Key("f3"), IntEntry(VK_AUDIO_RECORD)},
          ai         |-> {Key("f4"), IntEntry(VK_AI_ALT)},
          ai_rewrite |-> {Key("f7"), Key("media_previous")},
          vision     |-> {Key("f8"), Key("media_play_pause")},
          pin        |-> {Key("f9"), IntEntry(VK_PIN_ALT), Key("media_next")},
          tts        |-> {Key("f10"), Key("media_volume_mute")}]

\* KEY_MAPPINGS.get(target_mode, [])
KEY_MAPPINGS(r, target_mode) ==
    IF target_mode \in DOMAIN HOTKEY_DEFS(r) THEN HOTKEY_DEFS(r)[target_mode] ELSE {}

\* CFG.HOTKEY_MODIFIERS.get(target_mode, []): the package defines {"aria": []},
\* the single file has no modifiers at all
HOTKEY_MODIFIERS(r, target_mode) == {}

\* dict.get(id, []) on a table of lists
table_get(table, id) == IF id \in DOMAIN table THEN table[id] ELSE {}

\* the tables KeyboardHandler reads: CFG.MODES, KEY_MAPPINGS, CFG.HOTKEY_MODIFIERS
Tables(r) ==
    [MODES |-> MODES(r),
     KEY_MAPPINGS |-> HOTKEY_DEFS(r),
     HOTKEY_MODIFIERS |-> [id \in DOMAIN HOTKEY_DEFS(r) |-> HOTKEY_MODIFIERS(r, id)]]

\* key in valid_keys, or hasattr(key, 'vk') and key.vk in valid_keys
key_in(valid_keys, key) ==
    \/ key \in valid_keys
    \/ key.cls = "KeyCode" /\ IntEntry(key.vk) \in valid_keys

is_key_match(r, key, target_mode) == key_in(KEY_MAPPINGS(r, target_mode), key)

\* a plausible slip: every required modifier must be held
check_key_all_modifiers(cfg, key, target_mode, keys_down) ==
    /\ key_in(table_get(cfg.KEY_MAPPINGS, target_mode), key)
    /\ \A m \in table_get(cfg.HOTKEY_MODIFIERS, target_mode) : m \in keys_down

KeyboardHandler_check_key(cfg, key, target_mode, keys_down) ==
    /\ key_in(table_get(cfg.KEY_MAPPINGS, target_mode), key)
    /\ LET required_modifiers == table_get(cfg.HOTKEY_MODIFIERS, target_mode)
       IN  \/ required_modifiers = {}
           \/ \E m \in required_modifiers : m \in keys_down

\* the first mode of CFG.MODES the key matches, "None" when there is none
KeyboardHandler_get_mode_for_key(cfg, key, keys_down) ==
    LET hits == {i \in 1..Len(cfg.MODES) :
                    KeyboardHandler_check_key(cfg, key, cfg.MODES[i], keys_down)}
    IN  IF hits = {} THEN "None"
        ELSE cfg.MODES[CHOOSE i \in hits : \A j \in hits : i <= j]

\* a plausible slip: on release the key codes' vk is not looked up
should_stop_listed_only(r, key, mode, keys_down) == key \in KEY_MAPPINGS(r, mode)

\* on_release's test: the package looks the key up in the current mode's keys,
\* the single file calls check_key
should_stop(r, key, mode, keys_down) ==
    IF r = "pkg" THEN is_key_match(r, key, mode)
    ELSE KeyboardHandler_check_key(Tables(r), key, mode, keys_down)

\* a plausible slip: no mode copies the selection
CopyMode_none(r) == "None"

\* the mode whose selection is copied before capture starts
CopyMode(r) == IF r = "pkg" THEN "aria" ELSE "ai_rewrite"

(***************************************************************************)
(* ModeHandler.process: the hallucination guard and the handler table      *)
(* (handlers/mode.py).                                                     *)
(***************************************************************************)
hallucinations ==
    { Str(<<"t","h","a","n","k"," ","y","o","u">>),
      Str(<<"y","o","u","'","r","e"," ","w","e","l","c","o","m","e">>),
      Str(<<"t","h","a","n","k","s">>),
      Str(<<"s","u","b","t","i","t","l","e">>),
      Str(<<"u","n","t","e","r","t","i","t","e","l">>),
      Str(<<"y","o","u">>) }

\* a plausible slip: only trailing '.' and '!' are stripped
RECURSIVE rstrip_punct(_)
rstrip_punct(t) ==
    IF Len(t) > 0 /\ t[Len(t)].c \in {".", "!"}
    THEN rstrip_punct(SubSeq(t, 1, Len(t) - 1))
    ELSE t

clean_trailing_only(text) == rstrip_punct(str_lower(str_strip(text)))

\* transcribed_text.strip().lower().replace(".", "").replace("!", "")
clean(text) == str_remove(str_remove(str_lower(str_strip(text)), "."), "!")

\* clean in hallucinations or len(clean) < 2
guard_rejects(text) ==
    \/ clean(text) \in hallucinations
    \/ str_len(clean(text)) < 2

\* a plausible slip: the table lacks the dictation entry
handlers_no_dictation(mode) ==
    IF mode \in {"ai", "ai_rewrite", "vision"} THEN mode ELSE "None"

\* a plausible slip: the dictation entry points at the chat handler
handlers_dictation_as_ai(mode) ==
    IF mode \in {"ai", "ai_rewrite", "vision"} THEN mode
    ELSE IF mode = "dictation" THEN "ai"
    ELSE "None"

\* handlers.get(mode): the name of the handler, "None" when the mode has none
handlers(mode) ==
    IF mode \in {"dictation", "ai", "ai_rewrite", "vision"} THEN mode ELSE "None"

(***************************************************************************)
(* AIService (services/ai.py): the intent router.                          *)
(*                                                                         *)
(* The classifier's reply is a sequence of tokens: the fence "```json",    *)
(* the fence "```", whitespace, prose that is no JSON, and the text of one *)
(* JSON document ("doc", with the value it denotes).  A JSON value is an   *)
(* object with its "action" and "text" members, or a non-object.           *)
(***************************************************************************)
Tok(t) == [t |-> t, v |-> [kind |-> "none", action |-> "", has_text |-> FALSE, text |-> NoneStr]]

\* the text of the JSON object {"action": action, "text": text}; action "<absent>"
\* leaves the member out, action "<number>" is a member that is no string
ObjDoc(action, has_text, text) ==
    [t |-> "doc",
     v |-> [kind |-> "object", action |-> action, has_text |-> has_text, text |-> text]]

\* the text of a JSON value that is no object: "array", "string", "number", "null"
ValDoc(kind) ==
    [t |-> "doc", v |-> [kind |-> kind, action |-> "", has_text |-> FALSE, text |-> NoneStr]]

RECURSIVE tok_lstrip(_, _)
tok_lstrip(c, drop) == IF Len(c) > 0 /\ Head(c).t \in drop THEN tok_lstrip(Tail(c), drop) ELSE c

RECURSIVE tok_rstrip(_, _)
tok_rstrip(c, drop) ==
    IF Len(c) > 0 /\ c[Len(c)].t \in drop
    THEN tok_rstrip(SubSeq(c, 1, Len(c) - 1), drop)
    ELSE c

\* content.strip() and content.strip("`")
tok_strip(c, drop) == tok_rstrip(tok_lstrip(c, drop), drop)

\* the index of the first token of c, from position i on, that is in the set stop;
\* Len(c) + 1 when there is none
RECURSIVE tok_find(_, _, _)
tok_find(c, i, stop) ==
    IF i > Len(c) THEN Len(c) + 1
    ELSE IF c[i].t \in stop THEN i
    ELSE tok_find(c, i + 1, stop)

\* content.split("```json")[1].split("```")[0].strip()
fence_json_body(c) ==
    LET open == tok_find(c, 1, {"fence_json"})
        close == tok_find(c, open + 1, {"fence_json", "fence"})
    IN  tok_strip(SubSeq(c, open + 1, close - 1), {"ws"})

\* the markdown extraction of smart_route
extract_json(content) ==
    LET c == tok_strip(content, {"ws"})
    IN  IF \E i \in 1..Len(c) : c[i].t = "fence_json"
        THEN fence_json_body(c)
        ELSE IF \E i \in 1..Len(c) : c[i].t = "fence"
             THEN tok_strip(tok_strip(c, {"fence"}), {"ws"})
             ELSE c

\* json.loads(content) succeeds: one JSON document, whitespace around it allowed
json_loads_ok(c) ==
    LET d == tok_strip(c, {"ws"})
    IN  Len(d) = 1 /\ d[1].t = "doc"

\* the value json.loads(content) returns when it succeeds
json_loads(c) == tok_strip(c, {"ws"})[1].v

\* a plausible slip: the except branch defaults to DICTATION
route_fallback_dictation(user_input) ==
    [kind |-> "object", action |-> "DICTATION", has_text |-> TRUE, text |-> user_input]

\* {"action": "AGENT", "text": user_input}
route_fallback(user_input) ==
    [kind |-> "object", action |-> "AGENT", has_text |-> TRUE, text |-> user_input]

\* smart_route: reply is [raised, content]; raised covers an exception or a timeout
\* of the call and a reply without content
AIService_smart_route(user_input, reply) ==
    IF reply.raised \/ ~json_loads_ok(extract_json(reply.content))
    THEN route_fallback(user_input)
    ELSE json_loads(extract_json(reply.content))

\* str.upper() on the action names the model uses
UpperMap ==
    [dictation |-> "DICTATION", agent |-> "AGENT", vision |-> "VISION",
     Dictation |-> "DICTATION", foo |-> "FOO"]

str_upper(a) == IF a \in DOMAIN UpperMap THEN UpperMap[a] ELSE a

\* what safe_execute returns when the wrapped function raised
NoResult == [none |-> TRUE, action |-> "None", text |-> NoneStr,
             response |-> NoneStr, calls |-> <<>>, messages |-> <<>>]

\* a plausible slip: the selection block is appended after the history
build_messages_selection_late(user_content, selected_text, image, history) ==
    <<[role |-> "system", kind |-> "system_prompt", content |-> NoneStr, image |-> FALSE]>>
    \o [i \in 1..Len(history) |->
          [role |-> history[i].role, kind |-> "history", content |-> history[i].content,
           image |-> FALSE]]
    \o (IF Len(selected_text) > 0
        THEN <<[role |-> "system", kind |-> "selection", content |-> selected_text,
                image |-> FALSE]>>
        ELSE <<>>)
    \o <<[role |-> "user", kind |-> "turn", content |-> user_content, image |-> image]>>

\* build_messages(user_content, selected_text, image_base64), the package's:
\* the system prompt, the selection block, the history, the user turn
AIService_build_messages(user_content, selected_text, image, history) ==
    <<[role |-> "system", kind |-> "system_prompt", content |-> NoneStr, image |-> FALSE]>>
    \o (IF Len(selected_text) > 0
        THEN <<[role |-> "system", kind |-> "selection", content |-> selected_text,
                image |-> FALSE]>>
        ELSE <<>>)
    \o [i \in 1..Len(history) |->
          [role |-> history[i].role, kind |-> "history", content |-> history[i].content,
           image |-> FALSE]]
    \o <<[role |-> "user", kind |-> "turn", content |-> user_content, image |-> image]>>

\* route_and_process under safe_execute("Aria Router").  shot: the screenshot was
\* taken; completion: [raised, content], the reply of the chat or vision model.
\* The result is (action, text) as a record, with the text the action worked on,
\* the external calls in order and the messages of the completion call.
AIService_route_and_process(user_text, selected_text, reply, shot, completion, history) ==
    LET route == AIService_smart_route(user_text, reply)
    IN  IF route.kind # "object" \/ route.action = "<number>"
        THEN [NoResult EXCEPT !.calls = <<"classify">>]
        ELSE
        LET action == IF route.action = "<absent>" THEN "AGENT" ELSE str_upper(route.action)
            processed_text == IF route.has_text THEN route.text ELSE user_text
        IN  IF action = "DICTATION"
            THEN [none |-> FALSE, action |-> "DICTATION", text |-> processed_text,
                  response |-> processed_text, calls |-> <<"classify">>,
                  messages |-> <<>>]
            ELSE
            LET vision == action = "VISION"
                image == vision /\ shot
                calls == <<"classify">> \o (IF vision THEN <<"screenshot">> ELSE <<>>)
                         \o <<IF image THEN "completeVision" ELSE "completeChat">>
            IN  IF completion.raised
                THEN [NoResult EXCEPT !.calls = calls]
                ELSE [none |-> FALSE,
                      action |-> IF vision THEN "VISION" ELSE "AGENT",
                      text |-> processed_text,
                      response |-> completion.content,
                      calls |-> calls,
                      messages |-> AIService_build_messages(processed_text, selected_text,
                                                            image, history)]

(***************************************************************************)
(* The running application: threads, queue, environment.                   *)
(***************************************************************************)
VIZ_QUEUE_LIMIT == 5

Threads == {"listener", "ui"}

audioVars == <<recording, current_mode, audio_buffer, stream, viz_queue>>
chatVars == <<chat_messages, chat_pinned, chat_enabled, chat_hide_timer, chat_overlay_window>>
histVars == <<conversation_history, answer_history, appended, inserted>>
threadVars == <<pc, loc, ui_queue, workers>>
envVars == <<held, events, frame_no, clock>>
obsVars == <<typed, spoken, ext_calls, starts, finals, last_process>>
pureVars == <<arg, res>>

vars == <<rev, audioVars, overlay_window, chatVars, histVars, tts_enabled, current_keys,
          threadVars, envVars, obsVars, pureVars>>

\* the keys the environment presses: F3, the vendor key code that is F3's alternate,
\* F4, F7, F8, F9 (pin), F10 (speech toggle)
Keys ==
    {Key("f3"), KeyCode(VK_AUDIO_RECORD), Key("f4"), Key("f7"), Key("f8"), Key("f9"), Key("f10")}

T_thank_you == Str(<<"T","h","a","n","k"," ","y","o","u",".">>)
T_hi == Str(<<"h","i">>)
R_ok == Str(<<"o","k">>)
ClipText == Str(<<"s","e","l">>)

\* an exception raised by an external call, where its result is expected
Raised == <<[c |-> "Raised", n |-> 0]>>

\* a plausible slip: the wrapper lets the exception through
safe_execute_reraises(outcome) == outcome

\* safe_execute's wrapper: the function's result, None when it raised
safe_execute(outcome) == IF outcome = Raised THEN NoneStr ELSE outcome

\* the class of an external call's outcome
OutcomeClass(outcome) ==
    IF outcome = Raised THEN "raised"
    ELSE IF Truthy(outcome) THEN "ok"
    ELSE "empty"

\* the screenshot, base64 encoded
Img == Str(<<"i","m","g">>)

\* what the transcription request does: it raises, or yields the text
TranscribeOutcomes == {Raised, T_thank_you, T_hi}

\* what the completion request does: it raises, yields no content, or the model's text
CompletionOutcomes == {Raised, NoneStr, R_ok}

\* what gnome-screenshot and the read of its file do: raise, or yield the image
ScreenshotOutcomes == {Raised, Img}

NoLocals == [mode |-> "None", text |-> NoneStr, audio |-> <<>>]

\* last_process before process() was ever called
NoProcess == [th |-> "None", mode |-> "None", did |-> "none"]

\* a callback handed to GLib.idle_add
Cb(fn, mode, text) == [fn |-> fn, mode |-> mode, text |-> text]

Refresh == Cb("refresh", "None", NoneStr)

\* data_copy[:, 0][::10]: every tenth sample of the chunk
Decimate(frame) == [every_tenth_of |-> frame]

\* the chunk the driver delivers: its number since the stream was opened, and the
\* mode of the session it is captured for
Chunk(no, mode) == [no |-> no, mode |-> mode]

\* the samples of a chunk, in order
Samples(chunk) == [k \in 1..SamplesPerChunk |-> [chunk |-> chunk, k |-> k]]

\* np.concatenate(STATE.audio_buffer, axis=0): the samples of the chunks, one array
RECURSIVE np_concatenate(_)
np_concatenate(buffer) ==
    IF buffer = <<>> THEN <<>>
    ELSE Samples(Head(buffer)) \o np_concatenate(Tail(buffer))

\* the None stop_recording returns, where an array is expected
NoAudio == <<[chunk |-> Chunk(0, "None"), k |-> 0]>>

\* what stop_recording returns: the concatenation of the buffered chunks, None
\* when the buffer is empty
stop_recording_result(buffer) ==
    IF buffer # <<>> THEN np_concatenate(buffer) ELSE NoAudio

\* a plausible slip: the preview slice is put on the queue whatever its size
viz_put_always(queue, item) == Append(queue, item)

\* if STATE.viz_queue.qsize() < 5: STATE.viz_queue.put_nowait(flat_data)
viz_put(queue, item) ==
    IF Len(queue) < VIZ_QUEUE_LIMIT THEN Append(queue, item) ELSE queue

\* a plausible slip: start_recording keeps the chunks of the session before
start_buffer_kept(buffer) == buffer

\* STATE.audio_buffer = []
start_buffer(buffer) == <<>>

\* args=(STATE.current_mode, audio_data): the worker is given the mode at the stop
worker_mode(captured, now) == captured

Init ==
    /\ rev \in {"pkg", "mono"}
    /\ recording = FALSE
    /\ current_mode = "None"
    /\ audio_buffer = <<>>
    /\ stream = "None"
    /\ viz_queue = <<>>
    /\ overlay_window = "None"
    /\ chat_overlay_window = "None"
    /\ chat_messages = <<>>
    /\ chat_pinned = FALSE
    /\ chat_enabled = TRUE
    /\ chat_hide_timer = FALSE
    /\ conversation_history = <<>>
    /\ answer_history = <<>>
    /\ tts_enabled = FALSE
    /\ current_keys = {}
    /\ pc = [th \in Threads |-> "idle"]
    /\ loc = [th \in Threads |-> NoLocals]
    /\ ui_queue = <<>>
    /\ workers = <<>>
    /\ held = {}
    /\ events = 0
    /\ frame_no = 0
    /\ clock = 0
    /\ typed = <<>>
    /\ spoken = <<>>
    /\ ext_calls = <<>>
    /\ starts = 0
    /\ finals = 0
    /\ appended = <<>>
    /\ inserted = <<>>
    /\ last_process = NoProcess
    /\ arg = "none"
    /\ res = "none"

(***************************************************************************)
(* KeyboardHandler.on_press (hotkey listener thread).                      *)
(***************************************************************************)
\* a plausible slip: the "if STATE.recording: return" is missing
on_press_binding_unguarded(cfg, key, is_recording, keys_down) ==
    IF KeyboardHandler_check_key(cfg, key, "pin", keys_down) THEN "pin"
    ELSE IF KeyboardHandler_check_key(cfg, key, "tts", keys_down) THEN "tts"
    ELSE KeyboardHandler_get_mode_for_key(cfg, key, keys_down)

\* a plausible slip: the recording modes are looked up before the toggles
on_press_binding_modes_first(cfg, key, is_recording, keys_down) ==
    IF is_recording THEN "ignored"
    ELSE IF KeyboardHandler_get_mode_for_key(cfg, key, keys_down) # "None"
    THEN KeyboardHandler_get_mode_for_key(cfg, key, keys_down)
    ELSE IF KeyboardHandler_check_key(cfg, key, "pin", keys_down) THEN "pin"
    ELSE IF KeyboardHandler_check_key(cfg, key, "tts", keys_down) THEN "tts"
    ELSE "None"

\* ChatManager.toggle_pin, TTSService.toggle or the start of a capture, by the
\* binding the key selects: "ignored" while recording, then pin, tts, a recording
\* mode, "None" for a key of no binding
on_press_binding(cfg, key, is_recording, keys_down) ==
    IF is_recording THEN "ignored"
    ELSE IF KeyboardHandler_check_key(cfg, key, "pin", keys_down) THEN "pin"
    ELSE IF KeyboardHandler_check_key(cfg, key, "tts", keys_down) THEN "tts"
    ELSE KeyboardHandler_get_mode_for_key(cfg, key, keys_down)

KeyDown(key) ==
    /\ pc["listener"] = "idle"
    /\ events < MaxEvents
    /\ events' = events + 1
    /\ held' = held \cup {key}
    /\ current_keys' = IF rev = "pkg" THEN current_keys \cup {key} ELSE current_keys
    /\ LET b == on_press_binding(Tables(rev), key, recording, current_keys')
       IN  CASE b \in {"ignored", "None"} ->
                  UNCHANGED <<audioVars, chatVars, tts_enabled, threadVars, ext_calls>>
             [] b = "pin" ->
                  /\ UNCHANGED <<audioVars, tts_enabled, pc, loc, workers, ext_calls,
                                 chat_messages, chat_enabled>>
                  /\ IF ~chat_enabled
                     THEN UNCHANGED <<chat_pinned, chat_hide_timer, chat_overlay_window,
                                      ui_queue>>
                     ELSE /\ chat_pinned' = ~chat_pinned
                          /\ IF ~chat_pinned' /\ chat_overlay_window # "None"
                             THEN /\ chat_hide_timer' = FALSE
                                  /\ chat_overlay_window' = "fading"
                                  /\ UNCHANGED ui_queue
                             ELSE /\ ui_queue' = Append(ui_queue, Refresh)
                                  /\ UNCHANGED <<chat_hide_timer, chat_overlay_window>>
             [] b = "tts" ->
                  /\ tts_enabled' = ~tts_enabled
                  /\ ui_queue' = Append(ui_queue, Refresh)
                  /\ UNCHANGED <<audioVars, chatVars, pc, loc, workers, ext_calls>>
             [] OTHER ->
                  /\ current_mode' = b
                  /\ ext_calls' = IF b = CopyMode(rev)
                                  THEN Append(ext_calls, "copy_selection")
                                  ELSE ext_calls
                  /\ ui_queue' = Append(ui_queue, Cb("show", b, NoneStr))
                  /\ pc' = [pc EXCEPT !["listener"] = "start_recording"]
                  /\ UNCHANGED <<recording, audio_buffer, stream, viz_queue, chatVars,
                                 tts_enabled, loc, workers>>
    /\ UNCHANGED <<rev, overlay_window, histVars, frame_no, clock, typed, spoken, starts,
                   finals, last_process, pureVars>>

(***************************************************************************)
(* AudioService.start_recording, called by on_press.  Opening the stream   *)
(* may raise; the exception leaves on_press and ends the listener.         *)
(***************************************************************************)
StartRecording ==
    /\ pc["listener"] = "start_recording"
    /\ audio_buffer' = start_buffer(audio_buffer)
    /\ viz_queue' = <<>>
    /\ frame_no' = 0
    /\ \/ /\ stream' = "open"
          /\ recording' = TRUE
          /\ starts' = starts + 1
          /\ pc' = [pc EXCEPT !["listener"] = "idle"]
       \/ /\ pc' = [pc EXCEPT !["listener"] = "crashed"]
          /\ UNCHANGED <<stream, recording, starts>>
    /\ UNCHANGED <<rev, current_mode, overlay_window, chatVars, histVars, tts_enabled,
                   current_keys, loc, ui_queue, workers, held, events, clock, typed, spoken, ext_calls,
                   finals, last_process, pureVars>>

(***************************************************************************)
(* AudioService.audio_callback (audio driver thread) and the recording     *)
(* overlay's drawing, which drains the preview queue (UI loop).            *)
(***************************************************************************)
\* a plausible slip: the "if not STATE.recording: return" is missing
callback_keeps_always(is_recording) == TRUE

\* audio_callback's test: the chunk is kept while a session is active
callback_keeps(is_recording) == is_recording

\* the driver delivers a chunk, at most max of them in a session; frame_no counts
\* the chunks delivered since the last start_recording
AudioCallbackUpTo(max) ==
    /\ frame_no < max
    /\ frame_no' = frame_no + 1
    /\ IF ~callback_keeps(recording)
       THEN UNCHANGED <<audio_buffer, viz_queue>>
       ELSE LET data_copy == Chunk(frame_no', current_mode)
            IN  /\ audio_buffer' = Append(audio_buffer, data_copy)
                /\ viz_queue' = viz_put(viz_queue, Decimate(data_copy))
    /\ UNCHANGED <<rev, recording, current_mode, stream, overlay_window, chatVars, histVars,
                   tts_enabled, current_keys, threadVars, held, events, clock, obsVars,
                   pureVars>>

AudioCallback == AudioCallbackUpTo(MaxFrames)

DrawWaveform ==
    /\ pc["ui"] = "idle"
    /\ overlay_window # "None"
    /\ viz_queue # <<>>
    /\ viz_queue' = <<>>
    /\ UNCHANGED <<rev, recording, current_mode, audio_buffer, stream, overlay_window,
                   chatVars, histVars, tts_enabled, current_keys, threadVars, envVars,
                   obsVars, pureVars>>

(***************************************************************************)
(* KeyboardHandler.on_release (hotkey listener thread).                    *)
(***************************************************************************)
KeyUp(key) ==
    /\ pc["listener"] = "idle"
    /\ key \in held
    /\ events < MaxEvents
    /\ events' = events + 1
    /\ held' = held \ {key}
    /\ current_keys' = current_keys \ {key}
    /\ IF recording /\ should_stop(rev, key, current_mode, current_keys')
       THEN \* OverlayManager.hide(), then AudioService.stop_recording()
            /\ ui_queue' = Append(ui_queue, Cb("hide", "None", NoneStr))
            /\ pc' = [pc EXCEPT !["listener"] = "stop_recording"]
       ELSE UNCHANGED <<ui_queue, pc>>
    /\ UNCHANGED <<rev, audioVars, overlay_window, chatVars, histVars, tts_enabled, loc,
                   workers, frame_no, clock, obsVars, pureVars>>

(***************************************************************************)
(* AudioService.stop_recording, called by on_release on the listener       *)
(* thread and by stop_recording_safe on the UI loop.  It returns the       *)
(* concatenation of the buffered chunks, None when there is none.          *)
(***************************************************************************)
\* STATE.recording = False
stop_sets_recording(is_recording) == FALSE

StopEffects ==
    /\ recording' = stop_sets_recording(recording)
    /\ stream' = "None"
    /\ finals' = IF recording THEN finals + 1 ELSE finals
    /\ UNCHANGED <<current_mode, audio_buffer, viz_queue>>

ListenerStopRecording ==
    /\ pc["listener"] = "stop_recording"
    /\ StopEffects
    /\ IF stop_recording_result(audio_buffer) # NoAudio
       THEN \* transcribed = AudioService.transcribe(audio_data): the call is issued
            /\ loc' = [loc EXCEPT !["listener"] =
                          [mode |-> "None", text |-> NoneStr,
                           audio |-> stop_recording_result(audio_buffer)]]
            /\ ext_calls' = Append(ext_calls, "transcribe")
            /\ pc' = [pc EXCEPT !["listener"] = "transcribe"]
       ELSE /\ pc' = [pc EXCEPT !["listener"] = "idle"]
            /\ UNCHANGED <<loc, ext_calls>>
    /\ UNCHANGED <<rev, overlay_window, chatVars, histVars, tts_enabled, current_keys,
                   ui_queue, workers, envVars, typed, spoken, starts, last_process,
                   pureVars>>

\* the transcription returns to on_release, which calls
\* ModeHandler.process(STATE.current_mode, transcribed) when the text is not empty
ListenerTranscribed ==
    /\ pc["listener"] = "transcribe"
    /\ \E outcome \in TranscribeOutcomes :
          LET t == safe_execute(outcome)
          IN  /\ res' = OutcomeClass(outcome)
              /\ IF t = Raised
                 THEN \* the exception leaves on_release
                      /\ loc' = [loc EXCEPT !["listener"] = NoLocals]
                      /\ pc' = [pc EXCEPT !["listener"] = "escaped"]
                 ELSE IF Truthy(t)
                 THEN /\ loc' = [loc EXCEPT !["listener"] =
                                    [mode |-> current_mode, text |-> t, audio |-> <<>>]]
                      /\ pc' = [pc EXCEPT !["listener"] = "process"]
                 ELSE /\ loc' = [loc EXCEPT !["listener"] = NoLocals]
                      /\ pc' = [pc EXCEPT !["listener"] = "idle"]
    /\ UNCHANGED <<rev, audioVars, overlay_window, chatVars, histVars, tts_enabled,
                   current_keys, ui_queue, workers, envVars, obsVars, arg>>

(***************************************************************************)
(* ModeHandler.stop_recording_safe and ModeHandler._process_worker.        *)
(***************************************************************************)
\* any thread calls stop_recording_safe(): run_on_main_thread queues its body
StopRecordingSafe ==
    /\ events < MaxEvents
    /\ events' = events + 1
    /\ ui_queue' = Append(ui_queue, Cb("stop_safe", "None", NoneStr))
    /\ UNCHANGED <<rev, audioVars, overlay_window, chatVars, histVars, tts_enabled,
                   current_keys, pc, loc, workers, held, frame_no, clock, obsVars,
                   pureVars>>

\* the body of stop_recording_safe after its "if not STATE.recording: return" and its
\* OverlayManager.hide(): stop, then start the worker thread on the audio
UIStopRecording ==
    /\ pc["ui"] = "stop_recording"
    /\ StopEffects
    /\ workers' = IF stop_recording_result(audio_buffer) # NoAudio
                  THEN Append(workers, [mode |-> current_mode,
                                        audio |-> stop_recording_result(audio_buffer)])
                  ELSE workers
    /\ pc' = [pc EXCEPT !["ui"] = "idle"]
    /\ UNCHANGED <<rev, overlay_window, chatVars, histVars, tts_enabled, current_keys,
                   loc, ui_queue, envVars, typed, spoken, ext_calls, starts, last_process,
                   pureVars>>

\* _process_worker's own try/except around transcribe: transcribed stays None
process_worker_try(t) == IF t = Raised THEN NoneStr ELSE t

\* _process_worker: transcribe, then GLib.idle_add(process) when the text is not empty
WorkerTranscribed(i) ==
    /\ i \in 1..Len(workers)
    /\ workers' = SubSeq(workers, 1, i - 1) \o SubSeq(workers, i + 1, Len(workers))
    /\ ext_calls' = Append(ext_calls, "transcribe")
    /\ \E outcome \in TranscribeOutcomes :
          LET t == process_worker_try(safe_execute(outcome))
          IN  /\ res' = OutcomeClass(outcome)
              /\ ui_queue' = IF Truthy(t)
                             THEN Append(ui_queue,
                                         Cb("process",
                                            worker_mode(workers[i].mode, current_mode),
                                            t))
                             ELSE ui_queue
    /\ UNCHANGED <<rev, audioVars, overlay_window, chatVars, histVars, tts_enabled,
                   current_keys, pc, loc, envVars, typed, spoken, starts, finals,
                   last_process, arg>>

(***************************************************************************)
(* ModeHandler.process and the handlers, on the thread that called process:*)
(* the listener thread (key-up path) or the UI loop (stop_recording_safe   *)
(* path).                                                                  *)
(***************************************************************************)
\* a plausible slip: process dispatches without the guard
process_unguarded(mode, text) ==
    IF handlers(mode) # "None" /\ Truthy(text) THEN handlers(mode) ELSE "no_handler"

\* what process does with a transcript: "rejected" by the guard, "no_handler" when
\* the mode has no handler, else the handler it calls
ModeHandler_process(mode, text) ==
    IF guard_rejects(text) THEN "rejected"
    ELSE IF handlers(mode) # "None" /\ Truthy(text) THEN handlers(mode)
    ELSE "no_handler"

P_dictation == Str(<<"[","D","i","c","t","a","t","i","o","n","]"," ">>)
P_screenshot == Str(<<"[","S","c","r","e","e","n","s","h","o","t","]"," ">>)
P_rewrite == Str(<<"[","R","e","w","r","i","t","e","]"," ">>)
P_original == Str(<<"\n","O","r","i","g","i","n","a","l",":"," ">>)
P_dots == Str(<<".",".",".">>)
\* the icon and the blank that prefix a chat line
Icon(name) == Str(<<name, " ">>)

\* a plausible slip: the vision turn is stored without its tag
HistoryUserTurn_untagged(handler, text) ==
    CASE handler = "ai" -> text
      [] handler = "ai_rewrite" ->
            str_concat(str_concat(str_concat(str_concat(P_rewrite, text), P_original),
                                  ClipText), P_dots)
      [] handler = "vision" -> text

\* the user turn a handler stores in conversation_history
HistoryUserTurn(handler, text) ==
    CASE handler = "ai" -> text
      [] handler = "ai_rewrite" ->
            str_concat(str_concat(str_concat(str_concat(P_rewrite, text), P_original),
                                  ClipText), P_dots)
      [] handler = "vision" -> str_concat(P_screenshot, text)

\* the user line a handler adds to the chat overlay
ChatUserLine(handler, text) ==
    CASE handler = "ai" -> text
      [] handler = "ai_rewrite" -> str_concat(Icon("<writing-hand>"), text)
      [] handler = "vision" -> str_concat(Icon("<camera>"), text)

\* a plausible slip: _handle_vision asks the vision model before the capture
first_calls_vision_first(handler) ==
    CASE handler = "ai" -> <<"completeChat">>
      [] handler = "ai_rewrite" -> <<"read_clipboard", "completeChat">>
      [] handler = "vision" -> <<"completeVision">>

\* the external calls a handler issues before it waits for the first result
first_calls(handler) ==
    CASE handler = "ai" -> <<"completeChat">>
      [] handler = "ai_rewrite" -> <<"read_clipboard", "completeChat">>
      [] handler = "vision" -> <<"screenshot">>

\* a plausible slip: the "if not response: return" is missing
handler_proceeds_always(response) == TRUE

\* "if not image_b64: return", "if not response: return"
handler_proceeds(response) == Truthy(response)

\* a plausible slip: the assistant turn is stored before the user turn
turn_messages_swapped(handler, text, response) ==
    <<[role |-> "assistant", content |-> response],
      [role |-> "user", content |-> HistoryUserTurn(handler, text)]>>

\* the two HistoryManager.add_message calls of a handler, in order
turn_messages(handler, text, response) ==
    <<[role |-> "user", content |-> HistoryUserTurn(handler, text)],
      [role |-> "assistant", content |-> response]>>

Process(th) ==
    /\ pc[th] = "process"
    /\ LET d == ModeHandler_process(loc[th].mode, loc[th].text)
           text == loc[th].text
       IN  /\ last_process' = [th |-> th, mode |-> loc[th].mode, did |-> d]
           /\ CASE d \in {"rejected", "no_handler"} ->
                     /\ pc' = [pc EXCEPT ![th] = "idle"]
                     /\ loc' = [loc EXCEPT ![th] = NoLocals]
                     /\ UNCHANGED <<histVars, chat_messages, ui_queue, typed, ext_calls>>
                [] d = "dictation" ->
                     \* _handle_dictation
                     /\ answer_history' = HistoryManager_add_answer(
                                             answer_history, str_concat(P_dictation, text),
                                             clock)
                     /\ inserted' = <<[text |-> str_concat(P_dictation, text),
                                       timestamp |-> clock]>> \o inserted
                     /\ chat_messages' = ChatManager_add_message(
                                            chat_messages, "user",
                                            str_concat(Icon("<microphone>"), text))
                     /\ ui_queue' = Append(ui_queue, Refresh)
                     /\ typed' = Append(typed, [via |-> "type_text", text |-> text])
                     /\ pc' = [pc EXCEPT ![th] = "idle"]
                     /\ loc' = [loc EXCEPT ![th] = NoLocals]
                     /\ UNCHANGED <<conversation_history, appended, ext_calls>>
                [] d \in {"ai", "ai_rewrite"} ->
                     \* AIService.chat: the completion call is issued
                     /\ ext_calls' = ext_calls \o first_calls(d)
                     /\ pc' = [pc EXCEPT ![th] = d]
                     /\ UNCHANGED <<histVars, chat_messages, ui_queue, typed, loc>>
                [] d = "vision" ->
                     \* ImageService.take_screenshot: the capture is issued
                     /\ ext_calls' = ext_calls \o first_calls(d)
                     /\ pc' = [pc EXCEPT ![th] = "screenshot"]
                     /\ UNCHANGED <<histVars, chat_messages, ui_queue, typed, loc>>
    /\ UNCHANGED <<rev, audioVars, overlay_window, chat_pinned, chat_enabled,
                   chat_hide_timer, chat_overlay_window, tts_enabled, current_keys, workers,
                   envVars, spoken, starts, finals, pureVars>>

\* take_screenshot returns to _handle_vision: None ends the turn, an image goes to
\* AIService.vision
ScreenshotReturned(th) ==
    /\ pc[th] = "screenshot"
    /\ \E outcome \in ScreenshotOutcomes :
          LET image_b64 == safe_execute(outcome)
          IN  /\ res' = OutcomeClass(outcome)
              /\ IF image_b64 = Raised
                 THEN \* the exception leaves _handle_vision and process
                      /\ pc' = [pc EXCEPT ![th] = "escaped"]
                      /\ loc' = [loc EXCEPT ![th] = NoLocals]
                      /\ UNCHANGED ext_calls
                 ELSE IF ~handler_proceeds(image_b64)
                 THEN /\ pc' = [pc EXCEPT ![th] = "idle"]
                      /\ loc' = [loc EXCEPT ![th] = NoLocals]
                      /\ UNCHANGED ext_calls
                 ELSE /\ pc' = [pc EXCEPT ![th] = "vision"]
                      /\ ext_calls' = Append(ext_calls, "completeVision")
                      /\ UNCHANGED loc
    /\ UNCHANGED <<rev, audioVars, overlay_window, chatVars, histVars, tts_enabled,
                   current_keys, ui_queue, workers, envVars, typed, spoken, starts, finals,
                   last_process, arg>>

\* AIService.chat / AIService.vision return to _handle_ai, _handle_ai_rewrite or
\* _handle_vision: the histories, the chat overlay, the typed output, the speech
CompletionReturned(th) ==
    /\ pc[th] \in {"ai", "ai_rewrite", "vision"}
    /\ \E outcome \in CompletionOutcomes :
          LET response == safe_execute(outcome)
          IN  /\ res' = OutcomeClass(outcome)
              /\ IF response = Raised
                 THEN \* the exception leaves the handler and process
                      /\ pc' = [pc EXCEPT ![th] = "escaped"]
                      /\ UNCHANGED <<histVars, chat_messages, ui_queue, typed, spoken>>
                 ELSE
                 /\ pc' = [pc EXCEPT ![th] = "idle"]
                 /\ IF ~handler_proceeds(response)
                    THEN UNCHANGED <<histVars, chat_messages, ui_queue, typed, spoken>>
                    ELSE LET turn == turn_messages(pc[th], loc[th].text, response)
                             entry == [text |-> response, timestamp |-> clock]
                         IN  /\ conversation_history' =
                                    HistoryManager_add_message(
                                        HistoryManager_add_message(
                                            conversation_history,
                                            turn[1].role, turn[1].content),
                                        turn[2].role, turn[2].content)
                             /\ appended' = appended \o turn
                             /\ answer_history' =
                                    HistoryManager_add_answer(answer_history, response,
                                                              clock)
                             /\ inserted' = <<entry>> \o inserted
                             /\ chat_messages' =
                                    ChatManager_add_message(
                                        ChatManager_add_message(
                                            chat_messages, "user",
                                            ChatUserLine(pc[th], loc[th].text)),
                                        "assistant", response)
                             /\ ui_queue' = ui_queue \o <<Refresh, Refresh>>
                             /\ typed' = Append(typed,
                                                [via |-> IF pc[th] = "ai_rewrite"
                                                         THEN "paste_text"
                                                         ELSE "type_text",
                                                 text |-> response])
                             /\ spoken' = IF tts_enabled /\ Truthy(response)
                                          THEN Append(spoken, response)
                                          ELSE spoken
    /\ loc' = [loc EXCEPT ![th] = NoLocals]
    /\ UNCHANGED <<rev, audioVars, overlay_window, chat_pinned, chat_enabled,
                   chat_hide_timer, chat_overlay_window, tts_enabled, current_keys, workers,
                   envVars, ext_calls, starts, finals, last_process, arg>>

(***************************************************************************)
(* The UI loop: GLib runs the queued callbacks in order, and fires the     *)
(* auto-hide timer and the end of the fade-out.                            *)
(***************************************************************************)
\* a plausible slip: the callback queued last runs first
idle_dispatch_newest(queue) ==
    [cb |-> queue[Len(queue)], rest |-> SubSeq(queue, 1, Len(queue) - 1)]

\* _auto_hide's test: "if not STATE.chat_pinned and STATE.chat_overlay_window"
auto_hide_fades(pinned, window) == ~pinned /\ window # "None"

\* _show_overlay arms the auto-hide timer when it shows the overlay unpinned
show_arms_timer(enabled, pinned) == enabled /\ ~pinned

\* GLib.idle_add: the main loop runs the idle callback queued first; the lambda
\* returns None, so the callback is removed after its one run
idle_dispatch(queue) == [cb |-> Head(queue), rest |-> Tail(queue)]

UIRun ==
    /\ pc["ui"] = "idle"
    /\ ui_queue # <<>>
    /\ LET d == idle_dispatch(ui_queue)
           cb == d.cb
       IN  CASE cb.fn = "show" ->
                  \* OverlayManager._show_impl
                  /\ overlay_window' = cb.mode
                  /\ ui_queue' = d.rest
                  /\ UNCHANGED <<chat_hide_timer, chat_overlay_window, pc, loc>>
             [] cb.fn = "hide" ->
                  \* OverlayManager._hide_impl
                  /\ overlay_window' = "None"
                  /\ ui_queue' = d.rest
                  /\ UNCHANGED <<chat_hide_timer, chat_overlay_window, pc, loc>>
             [] cb.fn = "refresh" ->
                  \* ChatManager._show_overlay
                  /\ chat_overlay_window' = IF chat_enabled THEN "shown" ELSE "None"
                  /\ chat_hide_timer' = show_arms_timer(chat_enabled, chat_pinned)
                  /\ ui_queue' = d.rest
                  /\ UNCHANGED <<overlay_window, pc, loc>>
             [] cb.fn = "stop_safe" ->
                  \* stop_recording_safe up to OverlayManager.hide()
                  /\ IF recording
                     THEN /\ ui_queue' = Append(d.rest, Cb("hide", "None", NoneStr))
                          /\ pc' = [pc EXCEPT !["ui"] = "stop_recording"]
                     ELSE /\ ui_queue' = d.rest
                          /\ UNCHANGED pc
                  /\ UNCHANGED <<overlay_window, chat_hide_timer, chat_overlay_window, loc>>
             [] cb.fn = "process" ->
                  \* the lambda _process_worker queued: ModeHandler.process(mode, text)
                  /\ ui_queue' = d.rest
                  /\ pc' = [pc EXCEPT !["ui"] = "process"]
                  /\ loc' = [loc EXCEPT !["ui"] =
                                [mode |-> cb.mode, text |-> cb.text, audio |-> <<>>]]
                  /\ UNCHANGED <<overlay_window, chat_hide_timer, chat_overlay_window>>
    /\ UNCHANGED <<rev, audioVars, chat_messages, chat_pinned, chat_enabled, histVars,
                   tts_enabled, current_keys, workers, envVars, obsVars, pureVars>>

\* ChatManager._auto_hide, when the timer fires; "hiding" is the fade-out that
\* _auto_hide started, "fading" the one toggle_pin started
AutoHide ==
    /\ pc["ui"] = "idle"
    /\ chat_hide_timer
    /\ chat_hide_timer' = FALSE
    /\ chat_overlay_window' = IF auto_hide_fades(chat_pinned, chat_overlay_window)
                              THEN "hiding"
                              ELSE chat_overlay_window
    /\ UNCHANGED <<rev, audioVars, overlay_window, chat_messages, chat_pinned, chat_enabled,
                   histVars, tts_enabled, current_keys, threadVars, envVars, obsVars,
                   pureVars>>

\* the fade-out ends and calls ChatManager._destroy
FadeOutDone ==
    /\ pc["ui"] = "idle"
    /\ chat_overlay_window \in {"fading", "hiding"}
    /\ chat_overlay_window' = "None"
    /\ UNCHANGED <<rev, audioVars, overlay_window, chat_messages, chat_pinned, chat_enabled,
                   chat_hide_timer, histVars, tts_enabled, current_keys, threadVars, envVars,
                   obsVars, pureVars>>

\* the tray's "clear history" item: HistoryManager.clear_all
ClearAll ==
    /\ pc["ui"] = "idle"
    /\ events < MaxEvents
    /\ events' = events + 1
    /\ answer_history' = <<>>
    /\ conversation_history' = <<>>
    /\ chat_messages' = <<>>
    /\ appended' = <<>>
    /\ inserted' = <<>>
    /\ ui_queue' = Append(ui_queue, Refresh)
    /\ UNCHANGED <<rev, audioVars, overlay_window, chat_pinned, chat_enabled,
                   chat_hide_timer, chat_overlay_window, tts_enabled, current_keys, pc, loc,
                   workers, held, frame_no, clock, obsVars, pureVars>>

Next ==
    \/ \E key \in Keys : KeyDown(key)
    \/ \E key \in Keys : KeyUp(key)
    \/ StartRecording
    \/ AudioCallback
    \/ DrawWaveform
    \/ ListenerStopRecording
    \/ ListenerTranscribed
    \/ StopRecordingSafe
    \/ UIStopRecording
    \/ \E i \in 1..Len(workers) : WorkerTranscribed(i)
    \/ \E th \in Threads : Process(th)
    \/ \E th \in Threads : ScreenshotReturned(th)
    \/ \E th \in Threads : CompletionReturned(th)
    \/ UIRun
    \/ AutoHide
    \/ FadeOutDone
    \/ ClearAll

Spec == Init /\ [][Next]_vars

(***************************************************************************)
(* HistoryManager on its own: any sequence of add_message and clear_all,   *)
(* with messages of any cost.                                              *)
(***************************************************************************)
\* contents whose estimated costs are 0, 1, 16000, 16001, 32000 and 32001 tokens
HistoryTexts ==
    { Str(<<"h","i">>), Str(<<"h","e","l","l","o">>), Rep("a", 64000), Rep("b", 64004),
      Rep("c", 128000), Rep("d", 128004) }

Quiet ==
    /\ recording = FALSE
    /\ current_mode = "None"
    /\ audio_buffer = <<>>
    /\ stream = "None"
    /\ viz_queue = <<>>
    /\ overlay_window = "None"
    /\ chat_overlay_window = "None"
    /\ chat_pinned = FALSE
    /\ chat_enabled = TRUE
    /\ chat_hide_timer = FALSE
    /\ tts_enabled = FALSE
    /\ current_keys = {}
    /\ pc = [th \in Threads |-> "idle"]
    /\ loc = [th \in Threads |-> NoLocals]
    /\ ui_queue = <<>>
    /\ workers = <<>>
    /\ held = {}
    /\ events = 0
    /\ frame_no = 0
    /\ typed = <<>>
    /\ spoken = <<>>
    /\ ext_calls = <<>>
    /\ starts = 0
    /\ finals = 0
    /\ last_process = NoProcess

quietVars == <<recording, current_mode, audio_buffer, stream, viz_queue, overlay_window,
               chat_overlay_window, chat_pinned, chat_enabled, chat_hide_timer, tts_enabled,
               current_keys, pc, loc, ui_queue, workers, held, events, frame_no, typed,
               spoken, ext_calls, starts, finals, last_process>>

InitHistory ==
    /\ Quiet
    /\ rev = "pkg"
    /\ chat_messages = <<>>
    /\ conversation_history = <<>>
    /\ answer_history = <<>>
    /\ appended = <<>>
    /\ inserted = <<>>
    /\ clock = 0
    /\ arg = 0
    /\ res = "none"

\* HistoryManager.add_message(role, content); arg counts the calls
AddMessage(role, content) ==
    /\ arg < MaxAppends
    /\ arg' = arg + 1
    /\ conversation_history' = HistoryManager_add_message(conversation_history, role, content)
    /\ appended' = Append(appended, [role |-> role, content |-> content])
    /\ res' = "add_message"
    /\ UNCHANGED <<rev, quietVars, chat_messages, answer_history, inserted, clock>>

\* HistoryManager.clear_all()
ClearHistory ==
    /\ conversation_history' = <<>>
    /\ answer_history' = <<>>
    /\ chat_messages' = <<>>
    /\ appended' = <<>>
    /\ inserted' = <<>>
    /\ res' = "clear_all"
    /\ UNCHANGED <<rev, quietVars, clock, arg>>

NextHistory ==
    \/ \E role \in {"user", "assistant"}, content \in HistoryTexts : AddMessage(role, content)
    \/ ClearHistory

SpecHistory == InitHistory /\ [][NextHistory]_vars

(***************************************************************************)
(* The answer log on its own: any sequence of add_answer and clear_all.    *)
(***************************************************************************)
AnswerTexts == {R_ok, T_hi}

\* HistoryManager.add_answer(text); arg counts the calls
AddAnswer(text) ==
    /\ arg < MaxAnswers
    /\ arg' = arg + 1
    /\ answer_history' = HistoryManager_add_answer(answer_history, text, clock)
    /\ inserted' = <<[text |-> text, timestamp |-> clock]>> \o inserted
    /\ res' = "add_answer"
    /\ UNCHANGED <<rev, quietVars, chat_messages, conversation_history, appended, clock>>

NextAnswers ==
    \/ \E text \in AnswerTexts : AddAnswer(text)
    \/ ClearHistory

SpecAnswers == InitHistory /\ [][NextAnswers]_vars

(***************************************************************************)
(* ModeHandler.process as a function of its arguments: every transcript    *)
(* over a small alphabet, and the transcripts the documentation names.     *)
(***************************************************************************)
GuardAlphabet == {"y", "o", "u", "Y", ".", "!", " "}

NamedTranscripts ==
    { <<"T","h","a","n","k"," ","y","o","u",".">>,
      <<"h","i">>,
      <<"h">>,
      <<"t",".","h","a","n","k","s">>,
      <<" ","T","h","a","n","k","s","!"," ">>,
      <<"S","u","b","t","i","t","l","e",".">>,
      <<"h","e","l","l","o"," ","w","o","r","l","d">> }

GuardTranscripts ==
    NamedTranscripts \cup UNION {[1..n -> GuardAlphabet] : n \in 0..MaxGuardLen}

GuardModes == {"dictation", "ai", "ai_rewrite", "vision", "aria"}

InitGuard ==
    /\ Quiet
    /\ rev = "pkg"
    /\ chat_messages = <<>>
    /\ conversation_history = <<>>
    /\ answer_history = <<>>
    /\ appended = <<>>
    /\ inserted = <<>>
    /\ clock = 0
    /\ arg \in [mode : GuardModes, chars : GuardTranscripts]
    /\ res = "pending"

\* process(mode, transcribed_text) is called on the str of arg.chars
ApplyProcess ==
    /\ res = "pending"
    /\ res' = ModeHandler_process(arg.mode, Str(arg.chars))
    /\ UNCHANGED <<rev, quietVars, chat_messages, histVars, clock, arg>>

NextGuard == ApplyProcess

SpecGuard == InitGuard /\ [][NextGuard]_vars

(***************************************************************************)
(* AIService.route_and_process as a function of the transcript, of the     *)
(* classifier's reply and of the outcomes of the screenshot and of the     *)
(* completion call.                                                        *)
(***************************************************************************)
T_other == Str(<<"o","t","h","e","r">>)

RouterActions ==
    {"<absent>", "<number>", "DICTATION", "AGENT", "VISION", "dictation", "foo", "FOO"}

\* the JSON documents a reply may hold
RouterDocs ==
    { ObjDoc(a, ht, t) : a \in RouterActions, ht \in {TRUE}, t \in {T_hi, T_other} }
    \cup { ObjDoc(a, FALSE, NoneStr) : a \in RouterActions }
    \cup { ValDoc(k) : k \in {"array", "string", "number", "null"} }

\* a reply is a document alone, in whitespace, in a fence, in a json fence after
\* prose, in a fence after prose; prose alone; nothing; or any short sequence of
\* marks around one document
RouterMarks == {Tok("fence_json"), Tok("fence"), Tok("ws"), Tok("prose")}

RouterContents ==
    { <<>>, <<Tok("prose")>> }
    \cup { <<d>> : d \in RouterDocs }
    \cup { <<Tok("ws"), d, Tok("ws")>> : d \in RouterDocs }
    \cup { <<Tok("fence"), Tok("ws"), d, Tok("ws"), Tok("fence")>> : d \in RouterDocs }
    \cup { <<Tok("prose"), Tok("fence_json"), d, Tok("fence"), Tok("prose")>> :
              d \in RouterDocs }
    \cup { <<Tok("prose"), Tok("fence"), d, Tok("fence")>> : d \in RouterDocs }
    \cup UNION { [1..n -> RouterMarks \cup {ObjDoc("DICTATION", TRUE, T_other)}] :
                    n \in 1..MaxReplyLen }

RouterReplies ==
    { [raised |-> TRUE, content |-> <<>>] }
    \cup { [raised |-> FALSE, content |-> c] : c \in RouterContents }

InitRouter ==
    /\ Quiet
    /\ rev = "pkg"
    /\ chat_messages = <<>>
    /\ conversation_history \in {<<>>, <<[role |-> "user", content |-> T_other]>>}
    /\ answer_history = <<>>
    /\ appended = conversation_history
    /\ inserted = <<>>
    /\ clock = 0
    /\ arg \in [user_text : {T_hi}, selected_text : {<<>>, ClipText},
                reply : RouterReplies, shot : BOOLEAN,
                completion : {[raised |-> TRUE, content |-> NoneStr],
                              [raised |-> FALSE, content |-> R_ok]}]
    /\ res = [done |-> FALSE]

\* AIService.route_and_process(user_text, selected_text); res keeps what smart_route
\* returned beside the result
RouteAndProcess ==
    /\ ~res.done
    /\ res' = [done |-> TRUE,
               route |-> AIService_smart_route(arg.user_text, arg.reply),
               out |-> AIService_route_and_process(arg.user_text, arg.selected_text,
                                                   arg.reply, arg.shot, arg.completion,
                                                   conversation_history)]
    /\ UNCHANGED <<rev, quietVars, chat_messages, histVars, clock, arg>>

NextRouter == RouteAndProcess

SpecRouter == InitRouter /\ [][NextRouter]_vars

(***************************************************************************)
(* KeyboardHandler.check_key and on_press's choice of a binding as         *)
(* functions of the hotkey tables, of the key and of the keys held.        *)
(***************************************************************************)
Modifiers == {Key("ctrl"), Key("alt")}

\* the key lists a drawn binding may have: bindings may share a key or a key code
KeyLists ==
    { {Key("f3")}, {Key("f9")},
      {Key("f3"), IntEntry(VK_AUDIO_RECORD)},
      {IntEntry(VK_AUDIO_RECORD), Key("f9")} }

ModifierLists == { {}, {Key("ctrl")}, {Key("ctrl"), Key("alt")} }

\* the tables of the two revisions, and tables of two modes, pin and tts with any of
\* the key lists; pin and the first mode with any of the modifier lists
KeyTables ==
    {Tables("pkg"), Tables("mono")}
    \cup { [MODES |-> <<"dictation", "ai">>, KEY_MAPPINGS |-> k, HOTKEY_MODIFIERS |-> m] :
              k \in [{"pin", "tts", "dictation", "ai"} -> KeyLists],
              m \in [{"pin", "dictation"} -> ModifierLists] }

EventKeys == {Key("f3"), Key("f4"), Key("f9"), KeyCode(VK_AUDIO_RECORD)}

CheckTargets == {"pin", "tts", "dictation", "ai", "aria", "vision"}

InitKeys ==
    /\ Quiet
    /\ rev = "pkg"
    /\ chat_messages = <<>>
    /\ conversation_history = <<>>
    /\ answer_history = <<>>
    /\ appended = <<>>
    /\ inserted = <<>>
    /\ clock = 0
    /\ arg \in [cfg : KeyTables, key : EventKeys, held : SUBSET Modifiers]
    /\ res = [done |-> FALSE]

\* check_key(key, target_mode) with arg.held as current_keys
CheckKey(target_mode) ==
    /\ ~res.done
    /\ res' = [done |-> TRUE,
               op |-> "check_key",
               target_mode |-> target_mode,
               out |-> KeyboardHandler_check_key(arg.cfg, arg.key, target_mode, arg.held)]
    /\ UNCHANGED <<rev, quietVars, chat_messages, histVars, clock, arg>>

\* on_press(key): the key joins current_keys, then the binding is chosen
OnPress(is_recording) ==
    /\ ~res.done
    /\ res' = [done |-> TRUE,
               op |-> "on_press",
               is_recording |-> is_recording,
               out |-> on_press_binding(arg.cfg, arg.key, is_recording,
                                        arg.held \cup {arg.key})]
    /\ UNCHANGED <<rev, quietVars, chat_messages, histVars, clock, arg>>

NextKeys ==
    \/ \E target_mode \in CheckTargets : CheckKey(target_mode)
    \/ \E is_recording \in BOOLEAN : OnPress(is_recording)

SpecKeys == InitKeys /\ [][NextKeys]_vars

(***************************************************************************)
(* The capture path on its own: F3 in the package, sessions of up to       *)
(* MaxChunks chunks, the overlay's drawing, the stop on key-up.            *)
(***************************************************************************)
InitAudio ==
    /\ Quiet
    /\ rev = "pkg"
    /\ chat_messages = <<>>
    /\ conversation_history = <<>>
    /\ answer_history = <<>>
    /\ appended = <<>>
    /\ inserted = <<>>
    /\ clock = 0
    /\ arg = "none"
    /\ res = "none"

AudioChunk == AudioCallbackUpTo(MaxChunks)

NextAudio ==
    \/ KeyDown(Key("f3"))
    \/ KeyUp(Key("f3"))
    \/ StartRecording
    \/ AudioChunk
    \/ DrawWaveform
    \/ UIRun
    \/ ListenerStopRecording
    \/ ListenerTranscribed
    \/ Process("listener")

SpecAudio == InitAudio /\ [][NextAudio]_vars

(***************************************************************************)
(* AIService.build_messages as a function of the user text, of the         *)
(* selection, of the image and of the conversation history.                *)
(***************************************************************************)
BuildEntries ==
    { [role |-> "user", content |-> T_hi],
      [role |-> "assistant", content |-> R_ok],
      [role |-> "user", content |-> T_other] }

\* the histories build_messages is applied to: up to three entries
BuildHistories == UNION {[1..n -> BuildEntries] : n \in 0..3}

InitBuild ==
    /\ Quiet
    /\ rev = "pkg"
    /\ chat_messages = <<>>
    /\ conversation_history \in BuildHistories
    /\ answer_history = <<>>
    /\ appended = conversation_history
    /\ inserted = <<>>
    /\ clock = 0
    /\ arg \in [user_content : {T_hi, T_other}, selected_text : {<<>>, ClipText},
                image : BOOLEAN]
    /\ res = [done |-> FALSE]

\* AIService.build_messages(user_content, selected_text, image_base64)
BuildMessages ==
    /\ ~res.done
    /\ res' = [done |-> TRUE,
               out |-> AIService_build_messages(arg.user_content, arg.selected_text,
                                                arg.image, conversation_history)]
    /\ UNCHANGED <<rev, quietVars, chat_messages, histVars, clock, arg>>

NextBuild == BuildMessages

SpecBuild == InitBuild /\ [][NextBuild]_vars

(***************************************************************************)
(* Properties.                                                             *)
(***************************************************************************)

\* C1: at most one capture session is active at any time; on_press is never about
\* to call AudioService.start_recording while STATE.recording is true, whatever the
\* sequence of key-downs and key-ups (auto-repeats and other bindings' keys included).
C1_NoStartWhileRecording ==
    /\ pc["listener"] = "start_recording" => ~recording
    /\ starts - finals \in {0, 1}
    /\ recording <=> starts = finals + 1

\* F4 went down while the session F3 started was active, and started nothing
C1_Witness ==
    /\ rev = "mono"
    /\ recording
    /\ current_mode = "dictation"
    /\ starts = 1
    /\ finals = 0
    /\ {Key("f3"), Key("f4")} \subseteq held
    /\ pc["listener"] = "idle"

\* C2: once every key that went down has come up again and the listener has handled
\* every event, the capture sessions started equal the sessions finalised and no
\* session is active.
C2_StartsEqualFinalizations ==
    (held = {} /\ pc["listener"] = "idle") => (~recording /\ starts = finals)

\* two sessions were started and ended by key-ups, one of them by the key code
\* alternate, and everything is at rest
C2_Witness ==
    /\ held = {}
    /\ pc = [th \in Threads |-> "idle"]
    /\ ui_queue = <<>>
    /\ workers = <<>>
    /\ starts = 2
    /\ finals = 2
    /\ ~recording

\* C3: after every add_message and every clear_all the estimated costs of the
\* messages in conversation_history sum to at most MAX_TOKENS.
C3_BudgetKept ==
    HistoryManager_get_history_tokens(conversation_history) <= MAX_TOKENS

\* an append went over the budget and messages were evicted, one message remains
C3_Witness ==
    /\ res = "add_message"
    /\ Len(appended) >= 3
    /\ Len(conversation_history) = 1
    /\ HistoryManager_get_history_tokens(appended) > MAX_TOKENS
    /\ HistoryManager_get_history_tokens(conversation_history) = MAX_TOKENS

IsSuffix(h, all) ==
    /\ Len(h) <= Len(all)
    /\ h = SubSeq(all, Len(all) - Len(h) + 1, Len(all))

\* C4: conversation_history is a contiguous suffix, in append order, of the messages
\* appended since the last clear.
C4_SuffixOfAppended == IsSuffix(conversation_history, appended)

\* the oldest messages were evicted and two newer ones remain
C4_Witness ==
    /\ res = "add_message"
    /\ Len(conversation_history) = 2
    /\ Len(appended) >= 4
    /\ appended[1] # conversation_history[1]

\* C5: answer_history holds at most ANSWER_HISTORY_LIMIT entries, newest first: it is
\* the ANSWER_HISTORY_LIMIT most recent insertions since the last clear, the most
\* recent at the head, so that the first of ANSWER_HISTORY_LIMIT + 1 insertions is gone.
C5_NewestFirstBounded ==
    /\ Len(answer_history) <= ANSWER_HISTORY_LIMIT
    /\ answer_history =
          SubSeq(inserted, 1,
                 IF Len(inserted) < ANSWER_HISTORY_LIMIT THEN Len(inserted)
                 ELSE ANSWER_HISTORY_LIMIT)

\* ANSWER_HISTORY_LIMIT + 1 insertions: the first inserted text is in no entry
C5_Witness ==
    /\ res = "add_answer"
    /\ Len(inserted) = ANSWER_HISTORY_LIMIT + 1
    /\ Len(answer_history) = ANSWER_HISTORY_LIMIT
    /\ inserted[ANSWER_HISTORY_LIMIT + 1].text = T_hi
    /\ \A i \in 1..Len(answer_history) : answer_history[i].text = R_ok

\* the package's router decision {"action": "AGENT", "text": <transcript>}
IsAgentOnTranscript(route, user_text) ==
    /\ route.kind = "object"
    /\ route.action = "AGENT"
    /\ route.has_text
    /\ route.text = user_text

\* C6: when the classification call raises or times out, or when no JSON document
\* can be read from the reply, smart_route returns action AGENT with the original
\* transcript, and route_and_process works as AGENT on that transcript.
C6_FallbackOnParseError ==
    (/\ res.done
     /\ \/ arg.reply.raised
        \/ ~json_loads_ok(extract_json(arg.reply.content))
        \/ \A i \in 1..Len(arg.reply.content) : arg.reply.content[i].t # "doc")
    => /\ IsAgentOnTranscript(res.route, arg.user_text)
       /\ ~arg.completion.raised =>
             (res.out.action = "AGENT" /\ res.out.text = arg.user_text)

\* the reply is prose, no JSON: the fallback was returned and acted upon
C6_Witness ==
    /\ res.done
    /\ ~arg.reply.raised
    /\ arg.reply.content = <<Tok("prose")>>
    /\ IsAgentOnTranscript(res.route, arg.user_text)
    /\ res.out.calls = <<"classify", "completeChat">>

\* the reply parsed to a JSON object with an action field that holds a string
ParsedObjectWithAction ==
    /\ ~arg.reply.raised
    /\ json_loads_ok(extract_json(arg.reply.content))
    /\ json_loads(extract_json(arg.reply.content)).kind = "object"
    /\ json_loads(extract_json(arg.reply.content)).action \notin {"<absent>", "<number>"}

\* C7, as claimed: when the reply parses and its action, upper-cased, is none of
\* DICTATION, AGENT, VISION, the decision acted upon is AGENT with the original
\* transcript as its text.
C7_UnknownActionFallsBack ==
    (/\ res.done
     /\ ParsedObjectWithAction
     /\ str_upper(json_loads(extract_json(arg.reply.content)).action)
           \notin {"DICTATION", "AGENT", "VISION"}
     /\ ~arg.completion.raised)
    => (~res.out.none /\ res.out.action = "AGENT" /\ res.out.text = arg.user_text)

\* C8, as claimed: for every reply of the classifier, routing yields a decision with
\* an action among DICTATION, AGENT, VISION and a text, never a no-result (the
\* completion call itself succeeding).
C8_AlwaysADecision ==
    (res.done /\ ~arg.completion.raised)
    => (/\ ~res.out.none
        /\ res.out.action \in {"DICTATION", "AGENT", "VISION"}
        /\ res.out.text # NoneStr)

\* the characters of a transcript, as the claim normalises them
PlainWhitespace == {" ", "\n", "\t"}

RECURSIVE PlainLstrip(_)
PlainLstrip(s) ==
    IF Len(s) > 0 /\ Head(s) \in PlainWhitespace THEN PlainLstrip(Tail(s)) ELSE s

RECURSIVE PlainRstrip(_, _)
PlainRstrip(s, drop) ==
    IF Len(s) > 0 /\ s[Len(s)] \in drop
    THEN PlainRstrip(SubSeq(s, 1, Len(s) - 1), drop)
    ELSE s

PlainLower(s) == [i \in 1..Len(s) |-> LowerChar(s[i])]

PlainTrimmedLower(s) == PlainLower(PlainRstrip(PlainLstrip(s), PlainWhitespace))

\* lowercased, trailing '.' and '!' stripped, interior ones kept
NormTrailing(s) == PlainRstrip(PlainTrimmedLower(s), {".", "!"})

\* lowercased, every '.' and '!' removed
NormAll(s) == SelectSeq(PlainTrimmedLower(s), LAMBDA ch : ch \notin {".", "!"})

SilencePhrases ==
    { <<"t","h","a","n","k"," ","y","o","u">>,
      <<"y","o","u","'","r","e"," ","w","e","l","c","o","m","e">>,
      <<"t","h","a","n","k","s">>,
      <<"s","u","b","t","i","t","l","e">>,
      <<"u","n","t","e","r","t","i","t","e","l">>,
      <<"y","o","u">> }

NamedExamples ==
    /\ arg.chars = <<"T","h","a","n","k"," ","y","o","u",".">> => res = "rejected"
    /\ arg.chars = <<"h","i">> => res # "rejected"
    /\ arg.chars = <<"h">> => res = "rejected"

\* C9, as claimed: the guard rejects exactly when the transcript, lowercased and with
\* its trailing '.' and '!' stripped (interior ones kept), is a silence phrase or is
\* shorter than 2 characters.
C9_TrailingOnly ==
    res # "pending" =>
       /\ (res = "rejected") <=>
             (NormTrailing(arg.chars) \in SilencePhrases \/ Len(NormTrailing(arg.chars)) < 2)
       /\ NamedExamples

\* C9, amended: the guard rejects exactly when the transcript, stripped of surrounding
\* whitespace, lowercased and with every '.' and '!' removed, interior ones
\* included, is a silence phrase or is shorter than 2 characters; "Thank you." is
\* rejected, "hi" is accepted, "h" is rejected.
C9_EveryDotRemoved ==
    res # "pending" =>
       /\ (res = "rejected") <=>
             (NormAll(arg.chars) \in SilencePhrases \/ Len(NormAll(arg.chars)) < 2)
       /\ NamedExamples

\* a transcript with an interior '.' that is a silence phrase without it: rejected
C9_Witness ==
    /\ res = "rejected"
    /\ arg.chars = <<"y", ".", "o", "u">>
    /\ arg.mode = "dictation"

\* C10: a call of process whose transcript the guard rejects, on the listener thread
\* (key-up path) or on the UI loop (stop_recording_safe path), returns without a
\* handler: no external call, nothing typed or spoken, and conversation_history,
\* answer_history and chat_messages unchanged.
C10_RejectedIsInert ==
    [][\A th \in Threads :
          (pc[th] = "process" /\ pc'[th] # "process" /\ guard_rejects(loc[th].text))
          => /\ pc'[th] = "idle"
             /\ UNCHANGED <<conversation_history, answer_history, chat_messages, typed,
                            spoken, ext_calls>>]_vars

\* the UI loop called process for a mode that has a handler, on a transcript the
\* guard rejected
C10_Witness ==
    /\ last_process = [th |-> "ui", mode |-> "dictation", did |-> "rejected"]
    /\ pc["ui"] = "idle"
    /\ typed = <<>>
    /\ ext_calls = <<"transcribe">>

\* the states of a thread inside process or a handler
InDispatch == {"process", "screenshot", "ai", "ai_rewrite", "vision"}

\* on_release's call of process returns for a transcript captured in dictation mode
DictationTurnEnds ==
    /\ pc["listener"] = "process"
    /\ pc'["listener"] # "process"
    /\ loc["listener"].mode = "dictation"

\* type_text was called once more, with the transcript, and the answer log gained
\* one entry, for the transcript
TypedOnceAndLogged ==
    LET T == loc["listener"].text
        entry == [text |-> str_concat(P_dictation, T), timestamp |-> clock]
    IN  /\ typed' = Append(typed, [via |-> "type_text", text |-> T])
        /\ Len(answer_history') > 0
        /\ answer_history'[1] = entry
        /\ IF Len(answer_history) < ANSWER_HISTORY_LIMIT
           THEN answer_history' = <<entry>> \o answer_history
           ELSE Len(answer_history') = ANSWER_HISTORY_LIMIT

\* C11, as claimed: a dictation turn (the dictation key pressed while idle, audio
\* captured and transcribed as T, the key released) calls the typed output exactly
\* once, with T, and answer_history gains exactly one entry, whatever T is.
C11_DictationTypesOnce ==
    [][DictationTurnEnds => TypedOnceAndLogged]_vars

\* C11, amended: a dictation turn whose transcript T is not empty and passes the
\* hallucination guard calls the typed output exactly once, with T, and
\* answer_history gains exactly one entry; no other step of the turn types anything;
\* a turn whose transcript the guard rejects types and logs nothing.
C11_AcceptedDictationTypesOnce ==
    [][/\ (DictationTurnEnds /\ ~guard_rejects(loc["listener"].text))
             => TypedOnceAndLogged
       /\ (DictationTurnEnds /\ guard_rejects(loc["listener"].text))
             => UNCHANGED <<typed, answer_history>>
       /\ typed' # typed => \E th \in Threads : pc[th] \in InDispatch]_vars

\* F3 was pressed and released, the audio was transcribed as "hi": typed once, one
\* entry in the answer log
C11_Witness ==
    /\ last_process = [th |-> "listener", mode |-> "dictation", did |-> "dictation"]
    /\ pc["listener"] = "idle"
    /\ typed = <<[via |-> "type_text", text |-> T_hi]>>
    /\ Len(answer_history) = 1
    /\ answer_history[1].text = str_concat(P_dictation, T_hi)
    /\ starts = 1
    /\ finals = 1

\* C12: handling a transcript captured in dictation mode never changes
\* conversation_history, on the key-up path and on the stop_recording_safe path:
\* every step a thread takes for such a transcript, from the call of process to its
\* return, leaves conversation_history as it was.
C12_DictationKeepsHistory ==
    [][\A th \in Threads :
          (pc[th] \in InDispatch /\ pc'[th] # pc[th] /\ loc[th].mode = "dictation")
          => conversation_history' = conversation_history]_vars

\* a dictation turn after a chat turn: the chat turn's two messages are the history
C12_Witness ==
    /\ last_process = [th |-> "listener", mode |-> "dictation", did |-> "dictation"]
    /\ pc["listener"] = "idle"
    /\ conversation_history = <<[role |-> "user", content |-> T_hi],
                                [role |-> "assistant", content |-> R_ok]>>
    /\ Len(typed) = 2
    /\ typed[2] = [via |-> "type_text", text |-> T_hi]
    /\ Len(answer_history) = 2

\* the external calls made so far that are classifications
Classifications == {i \in 1..Len(ext_calls) : ext_calls[i] = "classify"}

\* C13, as claimed: once process has been called for a transcript that is not empty
\* and passes the guard, in whatever mode a key started, the classifier was invoked
\* for it and one of the dictation / agent / vision behaviours was dispatched.
C13_ClassifiedAndDispatched ==
    last_process.did \notin {"none", "rejected"}
    => /\ last_process.did \in {"dictation", "ai", "ai_rewrite", "vision"}
       /\ Classifications # {}

\* the number of the first k external calls that are the call named
CallsUpTo(k, name) == Cardinality({i \in 1..k : ext_calls[i] = name})

\* C14: the vision completion is issued only by a thread whose take_screenshot was
\* invoked and has returned an image in the same turn: every completeVision in the
\* order of external calls has a screenshot of its own before it.
C14_ScreenshotBeforeVision ==
    /\ [](\A k \in 1..Len(ext_calls) :
             CallsUpTo(k, "completeVision") <= CallsUpTo(k, "screenshot"))
    /\ [][(/\ Len(ext_calls') > Len(ext_calls)
           /\ \E i \in (Len(ext_calls) + 1)..Len(ext_calls') :
                 ext_calls'[i] = "completeVision")
          => \E th \in Threads :
                /\ pc[th] = "screenshot"
                /\ pc'[th] = "vision"
                /\ res' = "ok"]_vars

\* F8 pressed and released, transcribed, the screenshot taken, the vision model asked
C14_Witness ==
    /\ pc["listener"] = "vision"
    /\ ext_calls = <<"transcribe", "screenshot", "completeVision">>
    /\ res = "ok"

\* C15, as claimed: when the capture of the screenshot yields no image during a
\* VISION dispatch, no completion call of any kind is made for the turn and the
\* turn has no result.
C15_NoImageNoCompletion ==
    (/\ res.done
     /\ res.route.kind = "object"
     /\ str_upper(res.route.action) = "VISION"
     /\ ~arg.shot)
    => /\ \A i \in 1..Len(res.out.calls) :
             res.out.calls[i] \notin {"completeChat", "completeVision"}
       /\ res.out.none

\* the completion of thread th's handler h returned a response and the handler ran
\* to its end
DispatchSucceeds(th, h) ==
    /\ pc[th] = h
    /\ pc'[th] = "idle"
    /\ res' = "ok"

\* the steps of a successful turn with response R: the user turn and then the
\* assistant turn at the end of conversation_history and of the chat log, R at the
\* head of the answer log, R typed, R spoken when speech is on
TurnStored(user_turn, user_line, R) ==
    /\ conversation_history' =
          conversation_history \o <<[role |-> "user", content |-> user_turn],
                                    [role |-> "assistant", content |-> R]>>
    /\ chat_messages' =
          chat_messages \o <<[role |-> "user", text |-> user_line],
                             [role |-> "assistant", text |-> R]>>
    /\ Len(answer_history') = Len(answer_history) + 1
    /\ answer_history'[1].text = R
    /\ typed' = Append(typed, [via |-> "type_text", text |-> R])
    /\ spoken' = IF tts_enabled THEN Append(spoken, R) ELSE spoken

\* C16: after a successful vision dispatch on transcript T with response R,
\* conversation_history has gained the user turn "[Screenshot] T" and the chat log
\* the user line with the camera icon, each followed by the assistant turn R, and R
\* went to the answer log, the typed output and the speech output as in a chat turn.
C16_VisionTurnStored ==
    [][\A th \in Threads :
          DispatchSucceeds(th, "vision")
          => TurnStored(str_concat(P_screenshot, loc[th].text),
                        str_concat(Icon("<camera>"), loc[th].text),
                        R_ok)]_vars

\* a vision turn on "hi" answered "ok"
C16_Witness ==
    /\ last_process.did = "vision"
    /\ pc = [th \in Threads |-> "idle"]
    /\ res = "ok"
    /\ conversation_history =
          <<[role |-> "user", content |-> str_concat(P_screenshot, T_hi)],
            [role |-> "assistant", content |-> R_ok]>>
    /\ Len(chat_messages) = 2
    /\ typed = <<[via |-> "type_text", text |-> R_ok]>>
    /\ answer_history = <<[text |-> R_ok, timestamp |-> clock]>>

\* C17: after a successful chat dispatch on transcript T with response R,
\* conversation_history has been appended with the user turn T and then the
\* assistant turn R, the answer log has gained an entry for R, and R has been
\* forwarded to the typed output and to the speech output.
C17_AgentTurnStored ==
    [][\A th \in Threads :
          DispatchSucceeds(th, "ai") => TurnStored(loc[th].text, loc[th].text, R_ok)]_vars

\* a chat turn on "hi" answered "ok", with speech switched on
C17_Witness ==
    /\ last_process.did = "ai"
    /\ pc = [th \in Threads |-> "idle"]
    /\ res = "ok"
    /\ conversation_history = <<[role |-> "user", content |-> T_hi],
                                [role |-> "assistant", content |-> R_ok]>>
    /\ typed = <<[via |-> "type_text", text |-> R_ok]>>
    /\ spoken = <<R_ok>>
    /\ Len(answer_history) = 1

\* the states of a thread that waits for the result of an external call
AwaitingCall == {"transcribe", "screenshot", "ai", "ai_rewrite", "vision"}

\* C18: when the completion call of a chat or vision dispatch raises or returns an
\* empty result, the handler returns with conversation_history, answer_history and
\* chat_messages unchanged and nothing typed or spoken.
C18_FailedCompletionLeavesNothing ==
    [][\A th \in Threads :
          (/\ pc[th] \in {"ai", "vision"}
           /\ pc'[th] # pc[th]
           /\ res' \in {"raised", "empty"})
          => /\ pc'[th] = "idle"
             /\ UNCHANGED <<conversation_history, answer_history, chat_messages, typed,
                            spoken>>]_vars

\* a chat turn whose completion call raised: the turn is over, nothing was stored
C18_Witness ==
    /\ last_process.did = "ai"
    /\ pc = [th \in Threads |-> "idle"]
    /\ res = "raised"
    /\ ext_calls = <<"transcribe", "completeChat">>
    /\ conversation_history = <<>>
    /\ answer_history = <<>>
    /\ chat_messages = <<>>
    /\ typed = <<>>

\* C19: no exception of the transcription, of a completion or of the screenshot
\* reaches the hotkey listener thread or the UI loop: the call yields no result, the
\* thread returns to rest, and after a failure on the key-up path no session is
\* active, so that the next key-down starts one.
C19_NoExceptionEscapes ==
    /\ [](\A th \in Threads : pc[th] # "escaped")
    /\ [][\A th \in Threads :
             (pc[th] \in AwaitingCall /\ pc'[th] # pc[th] /\ res' = "raised")
             => /\ pc'[th] = "idle"
                /\ th = "listener" => ~recording']_vars

\* the transcription of the first session raised, and a second session was started
C19_Witness ==
    /\ rev = "mono"
    /\ res = "raised"
    /\ ext_calls = <<"transcribe">>
    /\ last_process = NoProcess
    /\ starts = 2
    /\ finals = 1
    /\ recording
    /\ pc["listener"] = "idle"

\* C20, as claimed: the hotkey listener thread never executes a network call
\* (transcription, classification or completion) itself, so that a key-down is
\* handled while a call of an earlier turn is pending.
C20_ListenerOffTheNetwork ==
    pc["listener"] \notin {"transcribe", "ai", "ai_rewrite", "vision"}

\* the steps the UI loop takes: a queued callback, the overlay's drawing, the body
\* of stop_recording_safe, process and the return of a call to it, the auto-hide
\* timer, the end of the fade-out, the tray's menu item
OnUILoop ==
    \/ UIRun
    \/ DrawWaveform
    \/ UIStopRecording
    \/ Process("ui")
    \/ ScreenshotReturned("ui")
    \/ CompletionReturned("ui")
    \/ AutoHide
    \/ FadeOutDone
    \/ ClearAll

\* C21, as claimed: no network-bound operation (classification, completion,
\* screenshot capture, transcription) executes on the UI loop: a callback scheduled
\* onto the UI loop never waits on an external call.
C21_UILoopNeverWaits ==
    pc["ui"] \notin {"transcribe", "screenshot", "ai", "ai_rewrite", "vision"}

\* C22, as claimed: every mutation of the capture session (active flag, frame
\* buffer) and of conversation_history is performed by a callback running on the UI
\* loop; the hotkey listener thread, the audio driver's callback and the worker
\* threads never write them.
C22_OnlyUILoopMutates ==
    [][(\/ recording' # recording
        \/ audio_buffer' # audio_buffer
        \/ conversation_history' # conversation_history)
       => OnUILoop]_vars

\* q begins with p
Extends(q, p) == Len(q) >= Len(p) /\ SubSeq(q, 1, Len(p)) = p

\* what the run of a queued callback does, as seen in the next state
HeadRan(cb) ==
    CASE cb.fn = "show" -> overlay_window' = cb.mode
      [] cb.fn = "hide" -> overlay_window' = "None"
      [] cb.fn = "refresh" -> chat_hide_timer' = (chat_enabled /\ ~chat_pinned)
      [] cb.fn = "stop_safe" -> pc'["ui"] = IF recording THEN "stop_recording" ELSE "idle"
      [] cb.fn = "process" ->
            /\ pc'["ui"] = "process"
            /\ loc'["ui"].mode = cb.mode
            /\ loc'["ui"].text = cb.text

KeyEventIgnored ==
    UNCHANGED <<audioVars, overlay_window, chatVars, histVars, tts_enabled, threadVars,
                obsVars>>

\* C24: a key-down of a recording binding that arrives while a session is active is
\* rejected, not queued: the step changes nothing of the session, of the threads or
\* of the queue, and a start is armed only by a key-down step taken while no session
\* is active, so that after the finalization the machine rests until a new key-down.
C24_KeyDownWhileActiveRejected ==
    /\ [][\A key \in Keys : (recording /\ KeyDown(key)) => KeyEventIgnored]_vars
    /\ [][(pc["listener"] # "start_recording" /\ pc'["listener"] = "start_recording")
          => /\ ~recording
             /\ \E key \in Keys : KeyDown(key)]_vars
    /\ [][(~recording /\ recording') => pc["listener"] = "start_recording"]_vars

\* F4 went down while the session F3 started was active; the session was ended by
\* F3's key-up and nothing followed: F4 is still held and the machine is at rest
C24_Witness ==
    /\ rev = "mono"
    /\ ~recording
    /\ current_mode = "dictation"
    /\ starts = 1
    /\ finals = 1
    /\ Key("f4") \in held
    /\ Key("f3") \notin held
    /\ pc = [th \in Threads |-> "idle"]
    /\ ui_queue = <<>>

C26_TogglesSuppressedWhileRecording ==
    /\ [][\A key \in {Key("f9"), Key("f10")} :
             (recording /\ KeyDown(key))
             => UNCHANGED <<chat_pinned, tts_enabled, ui_queue, chat_overlay_window,
                            chat_hide_timer>>]_vars
    /\ [][(chat_pinned' # chat_pinned \/ tts_enabled' # tts_enabled)
          => /\ ~recording
             /\ \E key \in {Key("f9"), Key("f10")} : KeyDown(key)]_vars
    /\ [][(~recording /\ KeyDown(Key("f10"))) => tts_enabled' = ~tts_enabled]_vars
    /\ [][(~recording /\ chat_enabled /\ KeyDown(Key("f9")))
          => chat_pinned' = ~chat_pinned]_vars

\* F9 and F10 went down during the session F3 started: neither toggle changed, and
\* the queue holds the overlay's show only
C26_Witness ==
    /\ recording
    /\ starts = 1
    /\ events = 3
    /\ held = {Key("f3"), Key("f9"), Key("f10")}
    /\ ~chat_pinned
    /\ ~tts_enabled
    /\ ui_queue = <<Cb("show", current_mode, NoneStr)>>

\* the number of selection copies among the external calls
Copies(calls) == Cardinality({i \in 1..Len(calls) : calls[i] = "copy_selection"})

\* C29: for the mode that requires external context (aria in the package,
\* ai_rewrite in the single file) the copy of the selection and its settle delay are
\* over, within on_press, before the capture stream is opened and the session becomes
\* active; on_press copies nothing for any other mode, and nothing else copies.
C29_CopyBeforeCapture ==
    /\ [][\A key \in Keys :
             (KeyDown(key) /\ pc'["listener"] = "start_recording")
             => /\ ~recording'
                /\ stream' = "None"
                /\ ext_calls' =
                      IF current_mode' = (IF rev = "pkg" THEN "aria" ELSE "ai_rewrite")
                      THEN Append(ext_calls, "copy_selection")
                      ELSE ext_calls]_vars
    /\ [][(stream # "open" /\ stream' = "open")
          => /\ pc["listener"] = "start_recording"
             /\ ext_calls' = ext_calls]_vars
    /\ [][Copies(ext_calls') # Copies(ext_calls)
          => \E key \in Keys : KeyDown(key) /\ pc'["listener"] = "start_recording"]_vars

\* F7 went down in the single file: the selection was copied, then the stream opened
C29_Witness ==
    /\ rev = "mono"
    /\ current_mode = "ai_rewrite"
    /\ recording
    /\ stream = "open"
    /\ starts = 1
    /\ ext_calls = <<"copy_selection">>

\* C30: an audio callback that arrives while no session is active is a no-op: the
\* step in which the driver delivers a chunk while STATE.recording is false changes
\* neither the frame buffer nor the preview queue.
C30_CallbackWhileIdleIsNoOp ==
    [][(~recording /\ frame_no' = frame_no + 1)
       => UNCHANGED <<audio_buffer, viz_queue>>]_vars

\* the one chunk of the session arrived after stop_recording had cleared the flag:
\* the buffer and the preview queue are as start_recording left them
C30_Witness ==
    /\ ~recording
    /\ starts = 1
    /\ finals = 1
    /\ frame_no = 1
    /\ audio_buffer = <<>>
    /\ viz_queue = <<>>

\* the entries of a table for a binding, none for a binding it does not list
Listed(table, id) == IF id \in DOMAIN table THEN table[id] ELSE {}

\* the raw key is one of the binding's keys, itself or by its virtual-key code
RawKeyMatch(cfg, key, id) ==
    \E entry \in Listed(cfg.KEY_MAPPINGS, id) :
       \/ entry = key
       \/ entry.cls = "int" /\ key.cls = "KeyCode" /\ entry.vk = key.vk

\* the matching rule: the raw key is the binding's, and one of its required
\* modifiers, if it has any, is held
MatchRule(cfg, key, id, keys_down) ==
    /\ RawKeyMatch(cfg, key, id)
    /\ Listed(cfg.HOTKEY_MODIFIERS, id) # {}
          => Listed(cfg.HOTKEY_MODIFIERS, id) \cap keys_down # {}

\* C27: check_key(key, b) is true exactly when the raw key equals the primary key of
\* b or one of its alternate keys (by identity or by virtual-key code) and, if b has
\* required modifiers, at least one of them is among the keys held; with no
\* required modifier the keys held do not matter.
C27_CheckKeyRule ==
    (res.done /\ res.op = "check_key")
    => /\ res.out <=> MatchRule(arg.cfg, arg.key, res.target_mode, arg.held)
       /\ Listed(arg.cfg.HOTKEY_MODIFIERS, res.target_mode) = {}
             => (res.out <=> RawKeyMatch(arg.cfg, arg.key, res.target_mode))

\* the vendor key code, listed for pin as a bare integer, with Ctrl held of the two
\* modifiers pin requires: check_key says yes
C27_Witness ==
    /\ res.done
    /\ res.op = "check_key"
    /\ res.target_mode = "pin"
    /\ arg.key = KeyCode(VK_AUDIO_RECORD)
    /\ arg.cfg.KEY_MAPPINGS["pin"] = {IntEntry(VK_AUDIO_RECORD), Key("f9")}
    /\ arg.cfg.HOTKEY_MODIFIERS["pin"] = {Key("ctrl"), Key("alt")}
    /\ arg.held = {Key("ctrl")}
    /\ res.out

\* the binding the priority selects: pin, then tts, then the first recording mode in
\* the order of the table, "None" when no binding matches
ByPriority(cfg, key, keys_down) ==
    IF MatchRule(cfg, key, "pin", keys_down) THEN "pin"
    ELSE IF MatchRule(cfg, key, "tts", keys_down) THEN "tts"
    ELSE IF \E i \in 1..Len(cfg.MODES) : MatchRule(cfg, key, cfg.MODES[i], keys_down)
    THEN LET first == CHOOSE i \in 1..Len(cfg.MODES) :
                         /\ MatchRule(cfg, key, cfg.MODES[i], keys_down)
                         /\ \A j \in 1..(i - 1) :
                               ~MatchRule(cfg, key, cfg.MODES[j], keys_down)
         IN  cfg.MODES[first]
    ELSE "None"

\* the bindings a key matches
Matching(cfg, key, keys_down) ==
    {id \in DOMAIN cfg.KEY_MAPPINGS : MatchRule(cfg, key, id, keys_down)}

\* C28: when a raw key could match more than one binding, the binding on_press acts
\* upon is chosen by a fixed priority (pin toggle, then speech toggle, then the
\* recording modes in table order), a function of the key and of the keys held.
C28_FixedPriority ==
    (res.done /\ res.op = "on_press" /\ ~res.is_recording)
    => res.out = ByPriority(arg.cfg, arg.key, arg.held \cup {arg.key})

\* F3 is listed for both modes and for tts, not for pin: tts is chosen
C28_Witness ==
    /\ res.done
    /\ res.op = "on_press"
    /\ ~res.is_recording
    /\ arg.key = Key("f3")
    /\ Matching(arg.cfg, arg.key, arg.held \cup {arg.key}) = {"tts", "dictation", "ai"}
    /\ res.out = "tts"

\* C31: the preview queue never holds more than 5 items, under any interleaving of
\* the audio callback, of the overlay's drawing and of start_recording; a callback
\* of an active session always appends its chunk to the capture buffer, puts the
\* decimated slice on the queue when fewer than 5 wait there and drops the slice
\* otherwise, and it can always run: a full queue does not hold it back.
C31_PreviewQueueBounded ==
    /\ [](Len(viz_queue) <= 5)
    /\ [][(recording /\ frame_no' = frame_no + 1)
          => /\ audio_buffer' =
                   Append(audio_buffer, [no |-> frame_no', mode |-> current_mode])
             /\ viz_queue' =
                   IF Len(viz_queue) = 5 THEN viz_queue
                   ELSE Append(viz_queue,
                               [every_tenth_of |->
                                   [no |-> frame_no', mode |-> current_mode]])]_vars
    /\ []((recording /\ frame_no < MaxChunks) => ENABLED AudioChunk)

\* seven chunks were captured and nothing was drawn: five slices wait, two were
\* dropped
C31_Witness ==
    /\ recording
    /\ Len(audio_buffer) = 7
    /\ Len(viz_queue) = 5
    /\ viz_queue[5].every_tenth_of.no = 5

\* the samples of chunks 1..n of a session in mode m, in their order of arrival
SessionSamples(n, m) ==
    [i \in 1..(SamplesPerChunk * n) |->
        [chunk |-> [no |-> ((i - 1) \div SamplesPerChunk) + 1, mode |-> m],
         k |-> ((i - 1) % SamplesPerChunk) + 1]]

\* C32: stop_recording returns the concatenation, in arrival order, of exactly the
\* chunks the callback appended since the most recent start_recording (none of an
\* earlier session, none lost or duplicated), and None exactly when no chunk was
\* captured: on_release then transcribes nothing.
C32_StopReturnsSessionAudio ==
    [][(pc["listener"] = "stop_recording" /\ pc'["listener"] # "stop_recording"
        /\ recording)
       => IF frame_no = 0
          THEN /\ pc'["listener"] = "idle"
               /\ loc' = loc
               /\ ext_calls' = ext_calls
          ELSE /\ pc'["listener"] = "transcribe"
               /\ loc'["listener"].audio = SessionSamples(frame_no, current_mode)]_vars

\* the second session, of two chunks, was stopped after a first one that had audio:
\* the audio handed to the transcription is that of the two chunks
C32_Witness ==
    /\ starts = 2
    /\ finals = 2
    /\ pc["listener"] = "transcribe"
    /\ ext_calls = <<"copy_selection", "transcribe", "copy_selection", "transcribe">>
    /\ Len(loc["listener"].audio) = 2 * SamplesPerChunk
    /\ loc["listener"].audio[1].chunk.no = 1

\* C33, as claimed: after a session is finalized (by a qualifying key-up or by
\* stop_recording_safe), the session is inactive, its stream is closed and its
\* frame buffer is empty.
C33_FinalizedSessionIsEmpty ==
    (finals > 0 /\ finals = starts /\ pc["listener"] # "start_recording")
    => /\ ~recording
       /\ stream = "None"
       /\ audio_buffer = <<>>

\* the number of messages before the history in a built list
BuiltOffset == IF arg.selected_text # <<>> THEN 2 ELSE 1

\* C34: build_messages returns exactly the system prompt, a selected-content system
\* block if and only if the selection is not empty, every conversation_history entry
\* in stored order, and the user turn, which carries the image if and only if one
\* is supplied; building leaves conversation_history as it was.
C34_BuiltMessageList ==
    /\ [](res.done =>
            LET m == res.out
                h == conversation_history
            IN  /\ Len(m) = BuiltOffset + Len(h) + 1
                /\ m[1].role = "system" /\ m[1].kind = "system_prompt"
                /\ arg.selected_text # <<>> =>
                      /\ m[2].role = "system"
                      /\ m[2].kind = "selection"
                      /\ m[2].content = arg.selected_text
                /\ \A i \in 1..Len(m) :
                      m[i].kind = "selection" => (i = 2 /\ arg.selected_text # <<>>)
                /\ \A i \in 1..Len(h) :
                      /\ m[BuiltOffset + i].kind = "history"
                      /\ m[BuiltOffset + i].role = h[i].role
                      /\ m[BuiltOffset + i].content = h[i].content
                      /\ ~m[BuiltOffset + i].image
                /\ m[Len(m)] = [role |-> "user", kind |-> "turn",
                                content |-> arg.user_content, image |-> arg.image])
    /\ [][conversation_history' = conversation_history]_vars

\* a list built with a selection and an image on a history of three entries
C34_Witness ==
    /\ res.done
    /\ arg.selected_text = ClipText
    /\ arg.image
    /\ Len(conversation_history) = 3
    /\ conversation_history[1] # conversation_history[2]
    /\ Len(res.out) = 6
    /\ res.out[6].image

\* C35, as claimed: trimming never evicts the message being added: after
\* add_message(m) returns, m is the last entry of conversation_history, for every m,
\* one whose own estimated cost exceeds the budget included.
C35_NewMessageKept ==
    res = "add_message"
    => /\ conversation_history # <<>>
       /\ conversation_history[Len(conversation_history)] = appended[Len(appended)]

\* s is a sequence of complete turns: a user message, then its assistant message
CompleteTurns(s) ==
    /\ Len(s) % 2 = 0
    /\ \A i \in 1..Len(s) : s[i].role = IF i % 2 = 1 THEN "user" ELSE "assistant"

\* C38, as claimed: whenever no dispatch is in progress, so that the messages added
\* since the last clear are complete turns, every assistant message in
\* conversation_history is immediately preceded by the user message of its turn, and
\* the history does not begin with an assistant message, also after eviction.
C38_HistoryOfCompleteTurns ==
    CompleteTurns(appended)
    => \A i \in 1..Len(conversation_history) :
          conversation_history[i].role = "assistant"
          => /\ i > 1
             /\ conversation_history[i - 1].role = "user"


\* the transcriptions issued so far, and those a started worker thread will issue
Transcriptions ==
    Len(SelectSeq(ext_calls, LAMBDA c : c = "transcribe")) + Len(workers)

\* C36, as claimed: each capture session is finalized, and its audio handed to the
\* transcription, at most once, under any interleaving of the key-up handling on the
\* listener thread with stop_recording_safe on the UI loop: no more sessions are
\* finalized, and no more audio is handed to the transcription, than sessions started.
C36_SessionTranscribedOnce ==
    /\ finals <= starts
    /\ Transcriptions <= starts


\* the mode of the session that captured an audio: the one its first chunk was
\* captured under
CapturedUnder(audio) == audio[1].chunk.mode

\* C37, as claimed: a transcript is dispatched under the mode of the session that
\* captured its audio: when the transcription returns on the listener thread, process
\* is called with that mode, and the process a worker thread schedules carries it,
\* also when another session has set another mode in the meantime.
C37_DispatchUnderCapturingMode ==
    [][/\ (ListenerTranscribed /\ pc'["listener"] = "process")
          => loc'["listener"].mode = CapturedUnder(loc["listener"].audio)
       /\ \A i \in 1..Len(workers) :
             (WorkerTranscribed(i) /\ Len(ui_queue') > Len(ui_queue))
             => ui_queue'[Len(ui_queue')].mode = CapturedUnder(workers[i].audio)]_vars


\* C39, as claimed: while chat_pinned is true the auto-hide path neither fades out
\* nor destroys the chat overlay: a timer that fires while pinned leaves the overlay
\* alone, no fade-out that _auto_hide started ends in the overlay's destruction
\* while pinned, and _show_overlay arms no auto-hide timer while pinned.
C39_PinnedOverlayStays ==
    [][chat_pinned
       => /\ AutoHide => chat_overlay_window' = chat_overlay_window
          /\ chat_overlay_window = "hiding" => chat_overlay_window' # "None"
          /\ (UIRun /\ Head(ui_queue).fn = "refresh") => ~chat_hide_timer']_vars


\* C40, as claimed: whenever the machine is idle (no session is active, no handler is
\* under way) and every scheduled UI callback has run, no recording overlay window is
\* shown, also when the capture stream could not be opened after the show was
\* scheduled.
C40_NoOverlayWhenIdle ==
    (/\ ~recording
     /\ ui_queue = <<>>
     /\ pc["ui"] = "idle"
     /\ pc["listener"] \in {"idle", "crashed"}
     /\ workers = <<>>)
    => overlay_window = "None"

====
